---------------------------- MODULE Spec2Model ----------------------------
(***************************************************************************)
(* The harvest -> fetch -> dedupe -> batched-commit pipeline of the        *)
(* Tamilflex backend: the bulk loader (initial_scrape.py) and the          *)
(* incremental cron scraper (scraper.py) run one after another against one *)
(* relational store reached through one SQLAlchemy session per run.        *)
(***************************************************************************)
EXTENDS Integers, Sequences, FiniteSets, TLC

(***************************************************************************)
(* Bounds of the model.                                                    *)
(***************************************************************************)
\* Number of pipeline runs executed one after another against the store.
MaxRuns == 2
\* Largest --batch argument tried.
MaxBatch == 2
\* Largest retries argument given to _get_with_retry.
MaxRetries == 4
\* The locators (topic URLs) the source site can list.
Urls == {1, 2, 3}
\* The listings a category forum can show, newest first: every sequence of
\* at most two locators.
Listings ==
    {<<>>} \cup {<<a>> : a \in Urls} \cup {<<a, b>> : a \in Urls, b \in Urls}
\* Links shown on one index page of a category forum.
LinksPerPage == {1, 2}
\* The --max-pages arguments tried.
MaxPagesArgs == {1, 2}

(***************************************************************************)
(* Program constants.                                                      *)
(***************************************************************************)
\* scraper.FORUM_CATEGORIES, by category name (the first two entries).
FORUM_CATEGORIES == <<"Tamil", "Tamil">>

\* What a worker's future holds: a record, None, or the exception the
\* worker let escape.
None == [kind |-> "none"]

Raise == [kind |-> "raise"]

Data(u, lang) == [kind |-> "data", source_url |-> u, language |-> lang]

NoMode == "none"

VARIABLES
    site,            \* category index -> listing of qualifying topic links
    linksPerPage,    \* pagination width of the source site
    db,              \* the store and the run's session (open transaction)
    nextId,          \* AUTO_INCREMENT of languages.id
    runNo,           \* runs started so far
    mode,            \* "bulk" | "incr" | NoMode
    pc,              \* position of the running pipeline
    max_pages,       \* --max-pages
    batch_size,      \* --batch
    cat,             \* harvest / cron loop: index into FORUM_CATEGORIES
    page,            \* harvest loop: page number
    all_topics,      \* harvest_all_urls.all_topics (locators)
    seen_urls,       \* harvest_all_urls.seen_urls
    existing,        \* enrich_and_save.existing
    pending,         \* enrich_and_save.pending
    completed,       \* indices of pending whose future has been consumed
    batch,           \* enrich_and_save.batch
    total_saved,     \* enrich_and_save.total_saved
    language_cache,  \* the cached Language objects, as [name, id]
    existing_urls,   \* scrape_and_save_movies.existing_urls
    new_topics,      \* scrape_and_save_movies.new_topics
    idx,             \* position in new_topics
    total_added,     \* scrape_and_save_movies.total_added
    raised,          \* an exception reached the caller of the run
    interrupted,     \* a KeyboardInterrupt ended the run
    storeAtStart,    \* history: locators stored when the run started
    loads,           \* history: queries that loaded the persisted locators
    results,         \* history: detail fetches of the run, in completion order
    flushes,         \* history: the _save_batch calls of the run
    failed,          \* history: some fetch, insert or commit failed in the run
    prev,            \* history: summary of the previous run; skipped is kept
                     \* between two incremental runs
    ticks            \* history: steps taken by the run

\* One call of scraper._get_with_retry.
VARIABLES
    retries,         \* the retries argument
    attempt,         \* the loop variable
    rpc,             \* "idle" | "try" | "returned" | "raised"
    outcomes,        \* history: outcome of each request sent, in order
    sleeps,          \* history: the time.sleep arguments, in order
    error            \* the exception that left the call, or NoError

retryVars == <<retries, attempt, rpc, outcomes, sleeps, error>>

\* One call of scraper._fetch_movie_detail with its _enrich call, and the
\* persistence of its record.
VARIABLES
    TMDB_BEARER_TOKEN,  \* the credential of provider A is configured
    OMDB_API_KEY,       \* the credential of provider B is configured
    tmdb_cache,         \* lru_cache of _tmdb_enrich: year -> cache entry
    epc,                \* "idle" | "tmdb" | "omdb" | "enriched" | "persisted" | "raised"
    year,               \* the year argument of _enrich
    tmdb,               \* _enrich.tmdb
    omdb,               \* _enrich.omdb
    calls,              \* history: provider functions _enrich has called
    queries,            \* history: HTTP queries sent to the providers
    failures,           \* history: providers whose lookup failed in this call
    enriched,           \* the dict _enrich returned
    record              \* the record _fetch_movie_detail returned

enrichVars == <<tmdb_cache, epc, year, tmdb, omdb, calls, queries, failures, enriched,
                record>>

\* The link filter of a page scan, in either mode.
VARIABLES
    page_links,      \* the <a href> elements of a fetched index page
    scan_mode,       \* "bulk" | "incr" | NoMode: which scan read the page
    link_pc,         \* "idle" | "scanned" | "persisted"
    link_topics,     \* indices of page_links that became a topic
    link_persisted   \* indices of page_links a record was persisted for

linkVars == <<page_links, scan_mode, link_pc, link_topics, link_persisted>>

\* Two pipeline runs, each with a session of its own, on the same store.
VARIABLES
    race_store,     \* the committed movies rows (their source_url), shared
    race_level,     \* the server's transaction isolation level
    race_tx,        \* per run: the rows its open transaction has inserted
    race_open,      \* per run: its transaction has read a snapshot
    race_snap,      \* per run: the committed rows of that snapshot
    race_work,      \* per run: the commit scopes left, each a list of locators
    race_pc,        \* per run: "check" | "insert"
    race_hits       \* the <<run, locator>> whose INSERT raised an error

raceVars == <<race_store, race_level, race_tx, race_open, race_snap,
              race_work, race_pc, race_hits>>

\* parse_title and build_downloads on one topic.
VARIABLES
    raw_title,      \* the topic's link text, a sequence of characters
    parsed,         \* the dict parse_title returned
    magnets,        \* the magnet links of the detail page
    downloads,      \* the list build_downloads returned
    parse_pc        \* "idle" | "raw" | "parsed" | "built"

parseVars == <<raw_title, parsed, magnets, downloads, parse_pc>>

\* The thread pool of enrich_and_save.
VARIABLES
    workers,        \* the --workers argument: max_workers of the executor
    stage,          \* per locator: "none" | "queued" | "running" | "done"
    pool_result,    \* per locator: what its _fetch_one returned
    finished,       \* the locators whose future is done, in completion order
    life            \* per locator: the processing states it went through

poolVars == <<workers, stage, pool_result, finished, life>>

\* update_images.run on one movie.
VARIABLES
    overwrite,       \* the --all flag
    movie,           \* the Movie row as the session holds it
    movie_before,    \* the row as it was stored when run started
    image_enriched,  \* what enrich(title, year) returned for the movie
    image_pc         \* "idle" | "start" | "queued" | "skipped" | "done"

imageVars == <<overwrite, movie, movie_before, image_enriched, image_pc>>

extraVars == <<linkVars, raceVars, parseVars, poolVars, imageVars>>

auxVars == <<retryVars, enrichVars, TMDB_BEARER_TOKEN, OMDB_API_KEY, extraVars>>

pipelineVars ==
    <<site, linksPerPage, db, nextId, runNo, mode, pc, max_pages, batch_size,
      cat, page, all_topics, seen_urls, existing, pending, completed, batch,
      total_saved, language_cache, existing_urls, new_topics, idx,
      total_added, raised, interrupted, storeAtStart, loads, results,
      flushes, failed, prev, ticks>>

vars == <<pipelineVars, auxVars>>

(***************************************************************************)
(* Sequence helpers.                                                       *)
(***************************************************************************)
Range(s) == {s[i] : i \in DOMAIN s}

Min(a, b) == IF a <= b THEN a ELSE b

Count(s, x) == Cardinality({i \in DOMAIN s : s[i] = x})

NoDuplicates(s) == \A i, j \in DOMAIN s : s[i] = s[j] => i = j

RECURSIVE Flatten(_)
Flatten(ss) == IF ss = <<>> THEN <<>> ELSE Head(ss) \o Flatten(Tail(ss))

\* s cut into consecutive pieces of n elements, the last one possibly shorter.
RECURSIVE Chunks(_, _)
Chunks(s, n) ==
    IF s = <<>> THEN <<>>
    ELSE <<SubSeq(s, 1, Min(n, Len(s)))>> \o Chunks(SubSeq(s, Min(n, Len(s)) + 1, Len(s)), n)

(***************************************************************************)
(* The store (models.py) behind a SQLAlchemy session (database.py:40,      *)
(* autoflush off).  Committed rows are db.movies / db.languages /          *)
(* db.links; db.tx holds the rows flushed in the open transaction; db.pend *)
(* holds the MovieLanguage objects added to the session and not yet        *)
(* flushed.  A movie row is identified by its source_url, a link row is    *)
(* <<source_url of the movie, languages.id>>.                              *)
(***************************************************************************)
EmptyTx == [movies |-> <<>>, languages |-> {}, links |-> {}]

\* Two locators denote the same source_url value.
SameLocator_Never(a, b) == FALSE

SameLocator(a, b) == a = b

\* The movie rows a query or a constraint check of the session sees.
VisibleMovies(d) == d.movies \o d.tx.movies

\* uq_movie_source_url / the filter Movie.source_url == url.
HasSourceUrl(d, u) == \E i \in DOMAIN VisibleMovies(d) : SameLocator(VisibleMovies(d)[i], u)

VisibleLanguages(d) == d.languages \cup d.tx.languages

\* db.query(models.Movie.source_url).all()
StoredUrls(d) == Range(d.movies)

\* db.rollback(): the open transaction's rows and the unflushed objects go.
DbRollback_Noop(d) == d

DbRollback(d) == [d EXCEPT !.tx = EmptyTx, !.pend = {}]

\* The foreign key movie_languages.language_id -> languages.id.
ForeignKeysHold(d) == \A l \in d.pend : \E r \in VisibleLanguages(d) : r.id = l[2]

\* db.flush(): INSERT the pending objects; ok is FALSE on an IntegrityError.
DbFlush(d) ==
    IF ForeignKeysHold(d)
    THEN [ok |-> TRUE, db |-> [d EXCEPT !.tx.links = @ \cup d.pend, !.pend = {}]]
    ELSE [ok |-> FALSE, db |-> d]

\* db.commit(): flush, then make the transaction's rows durable.
DbCommit_Lost(d) == [ok |-> TRUE, db |-> DbRollback(d)]

DbCommit(d) ==
    LET f == DbFlush(d) IN
    IF ~f.ok THEN f
    ELSE [ok |-> TRUE,
          db |-> [movies    |-> f.db.movies \o f.db.tx.movies,
                  languages |-> f.db.languages \cup f.db.tx.languages,
                  links     |-> f.db.links \cup f.db.tx.links,
                  tx        |-> EmptyTx,
                  pend      |-> {}]]

\* db.add(models.Movie(...)); db.flush()
AddMovieAndFlush(d, u) ==
    IF HasSourceUrl(d, u)
    THEN [ok |-> FALSE, db |-> d]
    ELSE DbFlush([d EXCEPT !.tx.movies = Append(@, u)])

(***************************************************************************)
(* DB helpers of scraper.py.  A persistence state s is                     *)
(*   [db, cache, nextId, saved, ok]                                        *)
(* where cache is the run's language_cache, saved the caller's counter     *)
(* and ok = FALSE once an exception has left the helper.                   *)
(***************************************************************************)
\* _get_or_create_language: the cache wins; else the row is looked up by
\* name; else it is inserted and flushed.  The cache keeps the object.
InCache(cache, name) == \E e \in cache : e.name = name

CacheGet(cache, name) == (CHOOSE e \in cache : e.name = name).id

GetOrCreateLanguage(s, name) ==
    IF InCache(s.cache, name) THEN s
    ELSE LET rows == {r \in VisibleLanguages(s.db) : r.name = name} IN
         IF rows # {}
         THEN [s EXCEPT !.cache = @ \cup {CHOOSE r \in rows : TRUE}]
         ELSE LET new == [id |-> s.nextId, name |-> name]
                  f   == DbFlush([s.db EXCEPT !.tx.languages = @ \cup {new}])
              IN  IF ~f.ok THEN [s EXCEPT !.ok = FALSE]
                  ELSE [s EXCEPT !.db = f.db,
                                 !.nextId = @ + 1,
                                 !.cache = @ \cup {new}]

\* _link_languages for the one language name of a record.
LinkLanguages(s, u, name) ==
    LET g == GetOrCreateLanguage(s, name) IN
    IF ~g.ok THEN g
    ELSE LET link == <<u, CacheGet(g.cache, name)>> IN
         IF link \in g.db.links \cup g.db.tx.links THEN g
         ELSE [g EXCEPT !.db.pend = @ \cup {link}]

(***************************************************************************)
(* initial_scrape._save_batch                                              *)
(***************************************************************************)
\* Body of the per-item try block.  inject: the database raises on this
\* item (connection loss, data error), whatever the item.
SaveBatchItem(s, data, inject) ==
    IF inject THEN [s EXCEPT !.ok = FALSE]
    ELSE IF HasSourceUrl(s.db, data.source_url) THEN s
    ELSE LET a == AddMovieAndFlush(s.db, data.source_url) IN
         IF ~a.ok THEN [s EXCEPT !.ok = FALSE]
         ELSE LET l == LinkLanguages([s EXCEPT !.db = a.db], data.source_url, data.language) IN
              IF ~l.ok THEN l ELSE [l EXCEPT !.saved = @ + 1]

\* The commit that ends a batch; on failure the transaction is rolled back.
CommitBatch(s, inject) ==
    LET c == IF inject THEN [ok |-> FALSE, db |-> s.db] ELSE DbCommit(s.db) IN
    IF c.ok THEN [s EXCEPT !.db = c.db]
    ELSE [s EXCEPT !.db = DbRollback(s.db), !.ok = FALSE]

\* The loop over the batch from item i on.  failAt = i injects a database
\* error at item i, failAt = Len(batch) + 1 at the commit, 0 nowhere.
\* The result carries tried, the number of items the loop reached, and
\* at, the place of the exception: "item", "commit" or "none".
RECURSIVE SaveBatchFrom(_, _, _, _)
SaveBatchFrom(s, items, i, failAt) ==
    IF i > Len(items)
    THEN LET c == CommitBatch(s, failAt = Len(items) + 1) IN
         c @@ [tried |-> Len(items), at |-> IF c.ok THEN "none" ELSE "commit"]
    ELSE LET r == SaveBatchItem(s, items[i], failAt = i) IN
         IF ~r.ok
         THEN \* except: log, db.rollback(), return saved
              [r EXCEPT !.db = DbRollback(r.db)] @@ [tried |-> i, at |-> "item"]
         ELSE SaveBatchFrom(r, items, i + 1, failAt)

save_batch(d, items, cache, id, failAt) ==
    SaveBatchFrom([db |-> d, cache |-> cache, nextId |-> id, saved |-> 0, ok |-> TRUE],
                  items, 1, failAt)

\* The failure points a _save_batch call over items can be given.
FailPoints(items) == 0 .. (Len(items) + 1)

(***************************************************************************)
(* The source site.                                                        *)
(***************************************************************************)
\* The qualifying links of index page p of category c, in page order; a
\* page past the end of the listing shows none.
PageLinks(c, p) ==
    SubSeq(site[c], Min((p - 1) * linksPerPage + 1, Len(site[c]) + 1),
                    Min(p * linksPerPage, Len(site[c])))

(***************************************************************************)
(* initial_scrape.harvest_all_urls                                         *)
(***************************************************************************)
\* The scan of one fetched page: the links not in seen, each once.
NewOnPage_NoSeen(links, seen) == links

RECURSIVE NewOnPage(_, _)
NewOnPage(links, seen) ==
    IF links = <<>> THEN <<>>
    ELSE IF Head(links) \in seen THEN NewOnPage(Tail(links), seen)
    ELSE <<Head(links)>> \o NewOnPage(Tail(links), seen \cup {Head(links)})

Topic(u, c) == [url |-> u, lang |-> FORUM_CATEGORIES[c]]

TopicsOf(links, c) == [k \in DOMAIN links |-> Topic(links[k], c)]

TopicUrls(topics) == {topics[k].url : k \in DOMAIN topics}

\* Worker result of _fetch_one: the record, or None when the fetch or the
\* parse raised (caught by the worker's own except).
fetch_one_NoCatch(t, ok) ==
    IF ok THEN Data(t.url, t.lang) ELSE Raise

\* A worker that hands back a record whether or not its fetch succeeded.
fetch_one_AlwaysData(t, ok) == Data(t.url, t.lang)

fetch_one(t, ok) ==
    IF ok THEN Data(t.url, t.lang) ELSE None

\* pending of enrich_and_save: the topics whose locator is not stored.
PendingOf_NoFilter(topics, stored) == topics

PendingOf(topics, stored) == SelectSeq(topics, LAMBDA t : t.url \notin stored)

UrlsOf(items) == [k \in DOMAIN items |-> items[k].source_url]

FlushRecord(items, failAt, r, final) ==
    [batch |-> UrlsOf(items), failAt |-> failAt, ok |-> r.ok, saved |-> r.saved,
     tried |-> r.tried, at |-> r.at, final |-> final]

\* Line 256: the batch is due for a flush.
ShouldFlush_Late(b, size) == Len(b) > size

ShouldFlush(b, size) == Len(b) >= size

(***************************************************************************)
(* scraper._get_with_retry                                                 *)
(***************************************************************************)
NoError == "none"

\* What one requests.get + raise_for_status can do: succeed, raise a
\* requests.RequestException (a timeout, an HTTP error status), or raise
\* something the except clause does not name (a KeyboardInterrupt).
RequestExceptions == {"Timeout", "HTTPError"}

RequestOutcomes == {"ok", "KeyboardInterrupt"} \cup RequestExceptions

\* Line 78: the wait after failed attempt number a.
Backoff_Linear(a) == 2 * a

Backoff(a) == 2 ^ a

\* No call of _get_with_retry has been made.
RetryIdle ==
    /\ retries = 0
    /\ attempt = 0
    /\ rpc = "idle"
    /\ outcomes = <<>>
    /\ sleeps = <<>>
    /\ error = NoError

(***************************************************************************)
(* Metadata enrichment: scraper._tmdb_enrich, _omdb_enrich, _enrich.        *)
(* A dict is a function on Keys; Absent marks a key the dict does not      *)
(* hold, PyNone the value None.  A value supplied by provider A (TMDB) is  *)
(* "A", one supplied by provider B (OMDB) is "B".                          *)
(***************************************************************************)
Keys == {"tmdb_id", "tmdb_rating", "synopsis", "director", "actors", "runtime",
         "poster_url", "backdrop_url", "genres"}

Absent == "<absent>"

PyNone == "None"

\* The values Python treats as false.
Falsy == {PyNone, "", "0.0", "[]"}

EmptyDict == [k \in Keys |-> Absent]

\* d.get(k) and d.get(k, default)
Get(d, k) == IF d[k] = Absent THEN PyNone ELSE d[k]

GetOr(d, k, default) == IF d[k] = Absent THEN default ELSE d[k]

\* The year arguments: None, a past year, and a year that is not < 2026.
NoYear == 0

Years == {NoYear, 2025, 2026}

\* results[0] of a TMDB search (backdrop_path present with poster_path).
TmdbMovies == [poster_path : {PyNone, "A"}, overview : {"", "A"}, vote_average : {"0", "A"}]

\* What one TMDB search request can do: raise, answer with a status other
\* than 200, answer with a body that is not the expected JSON, answer
\* with no results, or answer with results.
TmdbAnswers ==
    {[kind |-> k] : k \in {"error", "non200", "malformed", "nomatch"}}
      \cup {[kind |-> "results", movie |-> m] : m \in TmdbMovies}

\* The JSON object of an OMDB answer that found the title (Actors, Genre
\* and Runtime present with Director).
OmdbData == [Plot : {"N/A", "B"}, imdbRating : {"N/A", "B"}, Poster : {"N/A", "B"},
             Director : {"N/A", "B"}]

\* What one OMDB request can do: raise, answer with a body that is not
\* JSON, answer Response = "False", or answer with the title's data.
OmdbAnswers ==
    {[kind |-> k] : k \in {"error", "malformed", "notfound"}}
      \cup {[kind |-> "data", data |-> d] : d \in OmdbData}

\* A query sent to a provider; year = NoYear when the query names no year.
Query(provider, y) == [provider |-> provider, year |-> y]

\* What a provider function hands to its caller: the dict, the queries it
\* sent, whether the lookup ended in a provider failure, and whether an
\* exception left the function.
Lookup(result, sent, failure) ==
    [result |-> result, sent |-> sent, failure |-> failure, raised |-> FALSE]

\* except Exception: log, return {}
Caught_Reraised(sent) ==
    [result |-> EmptyDict, sent |-> sent, failure |-> TRUE, raised |-> TRUE]

Caught(sent) == Lookup(EmptyDict, sent, TRUE)

\* Lines 194-200 of _tmdb_enrich.
TmdbResult(m) ==
    [k \in Keys |->
       CASE k = "tmdb_id"      -> "A"
         [] k = "poster_url"   -> IF m.poster_path # PyNone THEN "A" ELSE PyNone
         [] k = "backdrop_url" -> IF m.poster_path # PyNone THEN "A" ELSE PyNone
         [] k = "tmdb_rating"  -> IF m.vote_average # "0" THEN "A" ELSE PyNone
         [] k = "synopsis"     -> IF m.overview # "" THEN "A" ELSE PyNone
         [] OTHER              -> Absent]

\* The body of _tmdb_enrich behind the lru_cache: a1 answers the first
\* search, a2 the second one if it is sent.
tmdb_enrich(token, y, a1, a2) ==
    IF ~token THEN Lookup(EmptyDict, <<>>, FALSE)
    ELSE LET q1 == Query("tmdb", IF y # NoYear /\ y < 2026 THEN y ELSE NoYear)
             q2 == Query("tmdb", NoYear)
         IN  IF a1.kind \in {"error", "malformed"} THEN Caught(<<q1>>)
             ELSE IF a1.kind = "results" THEN Lookup(TmdbResult(a1.movie), <<q1>>, FALSE)
             ELSE IF y = NoYear THEN Lookup(EmptyDict, <<q1>>, a1.kind = "non200")
             ELSE IF a2.kind \in {"error", "malformed"} THEN Caught(<<q1, q2>>)
             ELSE IF a2.kind = "results" THEN Lookup(TmdbResult(a2.movie), <<q1, q2>>, FALSE)
             ELSE Lookup(EmptyDict, <<q1, q2>>, a2.kind = "non200")

\* _clean of _omdb_enrich.
Clean(v) == IF v = "N/A" THEN "" ELSE v

\* Lines 110-143 of _omdb_enrich.
OmdbResult(d) ==
    [k \in Keys |->
       CASE k = "tmdb_id"      -> PyNone
         [] k = "tmdb_rating"  -> IF d.imdbRating = "N/A" THEN "0.0" ELSE d.imdbRating
         [] k = "synopsis"     -> Clean(d.Plot)
         [] k = "director"     -> Clean(d.Director)
         [] k = "actors"       -> Clean(d.Director)
         [] k = "runtime"      -> IF d.Director = "N/A" THEN PyNone ELSE d.Director
         [] k = "poster_url"   -> Clean(d.Poster)
         [] k = "backdrop_url" -> PyNone
         [] k = "genres"       -> IF d.Director = "N/A" THEN "[]" ELSE d.Director]

\* _omdb_enrich: b1 answers the first request, b2 the retry without year.
omdb_enrich(key, y, b1, b2) ==
    IF ~key THEN Lookup(EmptyDict, <<>>, FALSE)
    ELSE LET q1 == Query("omdb", y)
             q2 == Query("omdb", NoYear)
         IN  IF b1.kind \in {"error", "malformed"} THEN Caught(<<q1>>)
             ELSE IF b1.kind = "data" THEN Lookup(OmdbResult(b1.data), <<q1>>, FALSE)
             ELSE IF y = NoYear THEN Lookup(EmptyDict, <<q1>>, FALSE)
             ELSE IF b2.kind \in {"error", "malformed"} THEN Caught(<<q1, q2>>)
             ELSE IF b2.kind = "data" THEN Lookup(OmdbResult(b2.data), <<q1, q2>>, FALSE)
             ELSE Lookup(EmptyDict, <<q1, q2>>, FALSE)

\* {**omdb, **tmdb}: every key of tmdb takes tmdb's value.
Merge(o, t) == [k \in Keys |-> IF t[k] # Absent THEN t[k] ELSE o[k]]

\* Line 209: tmdb.get("poster_url") is true.
UsableImage(t) == Get(t, "poster_url") \notin Falsy

\* Lines 207-213 once both provider results are known.
enrich_AlwaysMerge(t, o) == Merge(o, t)

enrich(t, o) == IF UsableImage(t) THEN Merge(o, t) ELSE o

\* An lru_cache slot.
NotCached == [cached |-> FALSE]

Cached(l) == [cached |-> TRUE, result |-> l.result, failure |-> l.failure]

NoRecord == [kind |-> "none"]

\* The dict _fetch_movie_detail returns (lines 288-304); page_poster is
\* the image found on the detail page.
MovieRecord(u, lang, e, page_poster) ==
    [kind |-> "data", source_url |-> u, language |-> lang,
     synopsis     |-> GetOr(e, "synopsis", ""),
     director     |-> GetOr(e, "director", ""),
     actors       |-> GetOr(e, "actors", ""),
     poster_url   |-> IF Get(e, "poster_url") \notin Falsy THEN Get(e, "poster_url") ELSE page_poster,
     backdrop_url |-> Get(e, "backdrop_url"),
     tmdb_rating  |-> GetOr(e, "tmdb_rating", "0.0"),
     tmdb_id      |-> Get(e, "tmdb_id"),
     runtime      |-> Get(e, "runtime"),
     genres       |-> GetOr(e, "genres", "[]")]

\* No call of _fetch_movie_detail has been made.
EnrichIdle ==
    /\ tmdb_cache = [y \in Years |-> NotCached]
    /\ epc = "idle"
    /\ year = NoYear
    /\ tmdb = EmptyDict
    /\ omdb = EmptyDict
    /\ calls = <<>>
    /\ queries = <<>>
    /\ failures = {}
    /\ enriched = EmptyDict
    /\ record = NoRecord

(***************************************************************************)
(* The link filters of harvest_all_urls and scrape_and_save_movies.  A     *)
(* link is what the filters read of an <a> element: whether its href holds *)
(* the topic path, the length of its text, and which patterns its text     *)
(* matches.                                                                *)
(***************************************************************************)
\* Text lengths around the two thresholds (> 5 in bulk, >= 20 in cron).
TextLengths == {5, 6, 19, 20}

Links ==
    [topic_path  : BOOLEAN,      \* "index.php?/forums/topic/" in href
     length      : TextLengths,  \* len(text)
     download_kw : BOOLEAN,      \* _DOWNLOAD_KEYWORDS.search(text)
     skip_kw     : BOOLEAN,      \* _SKIP_KEYWORDS.search(text)
     size_kw     : BOOLEAN]      \* "GB" in text or "MB" in text or "Rips" in text

\* The pages read: one or two links.
LinkPages == {<<a>> : a \in Links} \cup {<<a, b>> : a \in Links, b \in Links}

\* initial_scrape.py lines 103-108 (the seen_urls test apart).
QualifiesBulk(l) == l.topic_path /\ l.length > 5 /\ l.download_kw /\ ~l.skip_kw

\* scraper.py lines 337-340.
QualifiesCron(l) == l.topic_path /\ ~(l.length < 20) /\ l.size_kw

Qualifies(m, l) == IF m = "bulk" THEN QualifiesBulk(l) ELSE QualifiesCron(l)

\* No page has been scanned.
LinksIdle ==
    /\ page_links = <<>>
    /\ scan_mode = NoMode
    /\ link_pc = "idle"
    /\ link_topics = {}
    /\ link_persisted = {}

(***************************************************************************)
(* Overlapping runs.  _scheduled_scrape, trigger_scrape and the bulk       *)
(* script each open a SessionLocal() of their own on the same MySQL        *)
(* database; a run is a list of commit scopes (the categories of           *)
(* scrape_and_save_movies, the batches of enrich_and_save), each the list  *)
(* of locators that reached the existence check.                           *)
(***************************************************************************)
Runs == {1, 2}

\* The engine sets no isolation level: the server's setting applies.
IsolationLevels == {"REPEATABLE READ", "READ COMMITTED"}

Scopes == {<<a>> : a \in Urls} \cup {<<a, b>> : a \in Urls, b \in Urls}

Works == {<<c>> : c \in Scopes} \cup {<<c, d>> : c \in Scopes, d \in {<<a>> : a \in Urls}}

\* The committed rows a consistent read of the transaction sees.
ReadView(level, open, snap, store) ==
    IF level = "REPEATABLE READ" /\ open THEN snap ELSE store

\* uq_movie_source_url: the unique index holds an entry equal to u.
UniqueKeyHeld_NoConstraint(rows, u) == FALSE

UniqueKeyHeld(rows, u) == \E i \in DOMAIN rows : SameLocator(rows[i], u)

\* No run has a session.
RaceIdle ==
    /\ race_store = <<>>
    /\ race_level = "REPEATABLE READ"
    /\ race_tx = [r \in Runs |-> <<>>]
    /\ race_open = [r \in Runs |-> FALSE]
    /\ race_snap = [r \in Runs |-> <<>>]
    /\ race_work = [r \in Runs |-> <<>>]
    /\ race_pc = [r \in Runs |-> "check"]
    /\ race_hits = {}

(***************************************************************************)
(* parser.py.  A title is a sequence of characters; a list of labels is a  *)
(* sequence of [name, text] with text the characters of name.              *)
(***************************************************************************)
UpperCase == <<"A", "B", "C", "D", "E", "F", "G", "H", "I", "J", "K", "L", "M", "N", "O", "P", "Q", "R", "S", "T", "U", "V", "W", "X", "Y", "Z">>

LowerCase == <<"a", "b", "c", "d", "e", "f", "g", "h", "i", "j", "k", "l", "m", "n", "o", "p", "q", "r", "s", "t", "u", "v", "w", "x", "y", "z">>

Digits == <<"0", "1", "2", "3", "4", "5", "6", "7", "8", "9">>

\* str.lower() / re.IGNORECASE on one character.
lower(c) ==
    IF \E i \in DOMAIN UpperCase : UpperCase[i] = c
    THEN LowerCase[CHOOSE i \in DOMAIN UpperCase : UpperCase[i] = c]
    ELSE c

Lowered(s) == [i \in DOMAIN s |-> lower(s[i])]

\* \d, \s and \w on the characters of a title.
IsDigit(c) == \E i \in DOMAIN Digits : Digits[i] = c

IsSpace(c) == c = " "

IsWord(c) == IsDigit(c) \/ c = "_" \/ (\E i \in DOMAIN LowerCase : LowerCase[i] = lower(c))

\* int() of one digit and of a string of digits.
DigitValue(c) == (CHOOSE i \in DOMAIN Digits : Digits[i] = c) - 1

RECURSIVE int(_)
int(ds) ==
    IF ds = <<>> THEN 0
    ELSE int(SubSeq(ds, 1, Len(ds) - 1)) * 10 + DigitValue(ds[Len(ds)])

\* pat occurs in s at position i.
StartsAt(s, i, pat) ==
    /\ i + Len(pat) - 1 <= Len(s)
    /\ \A k \in DOMAIN pat : s[i + k - 1] = pat[k]

\* `pat in s`
Contains(s, pat) == \E i \in 1..(Len(s) + 1) : StartsAt(s, i, pat)

\* re.search(re.escape(pat), s, re.IGNORECASE)
ContainsCI(s, pat) == Contains(Lowered(s), Lowered(pat))

\* The end of the longest run of digits / of blanks that starts at i.
RECURSIVE DigitsEnd(_, _)
DigitsEnd(s, i) == IF i <= Len(s) /\ IsDigit(s[i]) THEN DigitsEnd(s, i + 1) ELSE i

RECURSIVE SpacesEnd(_, _)
SpacesEnd(s, i) == IF i <= Len(s) /\ IsSpace(s[i]) THEN SpacesEnd(s, i + 1) ELSE i

\* str.strip()
RECURSIVE strip(_)
strip(s) ==
    IF s = <<>> THEN s
    ELSE IF IsSpace(Head(s)) THEN strip(Tail(s))
    ELSE IF IsSpace(s[Len(s)]) THEN strip(SubSeq(s, 1, Len(s) - 1))
    ELSE s

\* re.sub(r"\s+", " ", s)
RECURSIVE CollapseSpaces(_)
CollapseSpaces(s) ==
    IF s = <<>> THEN s
    ELSE IF IsSpace(Head(s)) THEN <<" ">> \o CollapseSpaces(SubSeq(s, SpacesEnd(s, 1), Len(s)))
    ELSE <<Head(s)>> \o CollapseSpaces(Tail(s))

\* The least element of a non-empty set of positions.
First(S) == CHOOSE x \in S : \A y \in S : x <= y

\* The positions of c in s from i on.
After(s, i, c) == {j \in DOMAIN s : j >= i /\ s[j] = c}

\* The lookup lists.
SOURCE_FORMATS ==
    <<[name |-> "TRUE WEB-DL", text |-> <<"T", "R", "U", "E", " ", "W", "E", "B", "-", "D", "L">>],
      [name |-> "WEB-DL", text |-> <<"W", "E", "B", "-", "D", "L">>],
      [name |-> "BluRay", text |-> <<"B", "l", "u", "R", "a", "y">>],
      [name |-> "Blu-Ray", text |-> <<"B", "l", "u", "-", "R", "a", "y">>],
      [name |-> "HQ PreDVD", text |-> <<"H", "Q", " ", "P", "r", "e", "D", "V", "D">>],
      [name |-> "PreDVD", text |-> <<"P", "r", "e", "D", "V", "D">>],
      [name |-> "HDCAM", text |-> <<"H", "D", "C", "A", "M">>],
      [name |-> "HDTV", text |-> <<"H", "D", "T", "V">>],
      [name |-> "DVDRip", text |-> <<"D", "V", "D", "R", "i", "p">>],
      [name |-> "WEBRip", text |-> <<"W", "E", "B", "R", "i", "p">>],
      [name |-> "UHD", text |-> <<"U", "H", "D">>],
      [name |-> "CAM", text |-> <<"C", "A", "M">>]>>

\* Quality tiers, in canonical order.
QUALITY_LABELS ==
    <<[name |-> "4K", text |-> <<"4", "K">>],
      [name |-> "2160p", text |-> <<"2", "1", "6", "0", "p">>],
      [name |-> "1080p", text |-> <<"1", "0", "8", "0", "p">>],
      [name |-> "720p", text |-> <<"7", "2", "0", "p">>],
      [name |-> "480p", text |-> <<"4", "8", "0", "p">>],
      [name |-> "360p", text |-> <<"3", "6", "0", "p">>]>>

\* Codecs.
CODEC_LABELS ==
    <<[name |-> "HEVC", text |-> <<"H", "E", "V", "C">>],
      [name |-> "x265", text |-> <<"x", "2", "6", "5">>],
      [name |-> "x264", text |-> <<"x", "2", "6", "4">>],
      [name |-> "AVC", text |-> <<"A", "V", "C">>],
      [name |-> "H.265", text |-> <<"H", ".", "2", "6", "5">>],
      [name |-> "H.264", text |-> <<"H", ".", "2", "6", "4">>]>>

\* Audio formats.
AUDIO_FORMAT_LABELS ==
    <<[name |-> "DD+5.1", text |-> <<"D", "D", "+", "5", ".", "1">>],
      [name |-> "DDP5.1", text |-> <<"D", "D", "P", "5", ".", "1">>],
      [name |-> "DD5.1", text |-> <<"D", "D", "5", ".", "1">>],
      [name |-> "Atmos", text |-> <<"A", "t", "m", "o", "s">>],
      [name |-> "TrueHD", text |-> <<"T", "r", "u", "e", "H", "D">>],
      [name |-> "DTS", text |-> <<"D", "T", "S">>],
      [name |-> "AAC 2.0", text |-> <<"A", "A", "C", " ", "2", ".", "0">>],
      [name |-> "AAC", text |-> <<"A", "A", "C">>]>>

\* (name, pattern): words holds the alternatives of \bname\b.
LANGUAGE_LABELS ==
    <<[name |-> "Tamil", text |-> <<"T", "a", "m", "i", "l">>, words |-> <<<<"T", "a", "m", "i", "l">>>>],
      [name |-> "Telugu", text |-> <<"T", "e", "l", "u", "g", "u">>, words |-> <<<<"T", "e", "l", "u", "g", "u">>>>],
      [name |-> "Hindi", text |-> <<"H", "i", "n", "d", "i">>, words |-> <<<<"H", "i", "n", "d", "i">>>>],
      [name |-> "Malayalam", text |-> <<"M", "a", "l", "a", "y", "a", "l", "a", "m">>, words |-> <<<<"M", "a", "l", "a", "y", "a", "l", "a", "m">>>>],
      [name |-> "Kannada", text |-> <<"K", "a", "n", "n", "a", "d", "a">>, words |-> <<<<"K", "a", "n", "n", "a", "d", "a">>>>],
      [name |-> "English", text |-> <<"E", "n", "g", "l", "i", "s", "h">>, words |-> <<<<"E", "n", "g", "l", "i", "s", "h">>, <<"E", "n", "g">>>>]>>

\* \(\d{4}\) matches at position i.
YearAt(s, i) ==
    /\ i + 5 <= Len(s)
    /\ s[i] = "("
    /\ \A k \in 1..4 : IsDigit(s[i + k])
    /\ s[i + 5] = ")"

\* An optional value: <<>> is None, <<v>> is v.
Nothing == <<>>

Some(v) == <<v>>

\* y = re.search(r"\((\d{4})\)", raw); int(y.group(1)) if y else None
ParseYear_LastGroup(raw) ==
    LET S == {i \in DOMAIN raw : YearAt(raw, i)} IN
    IF S = {} THEN Nothing
    ELSE LET i == CHOOSE x \in S : \A z \in S : z <= x IN Some(int(SubSeq(raw, i + 1, i + 4)))

ParseYear(raw) ==
    LET S == {i \in DOMAIN raw : YearAt(raw, i)} IN
    IF S = {} THEN Nothing
    ELSE Some(int(SubSeq(raw, First(S) + 1, First(S) + 4)))

\* The lookahead (?=\s*\(\d{4}\)|\s*-\s*\[) at position j.
NameEndsAt(s, j) ==
    LET a == SpacesEnd(s, j) IN
    \/ YearAt(s, a)
    \/ /\ a <= Len(s)
       /\ s[a] = "-"
       /\ SpacesEnd(s, a + 1) <= Len(s)
       /\ s[SpacesEnd(s, a + 1)] = "["

\* re.sub(r"\[.*?\]", "", s)
RECURSIVE RemoveBrackets(_)
RemoveBrackets(s) ==
    IF s = <<>> THEN s
    ELSE IF Head(s) = "[" /\ After(s, 2, "]") # {}
    THEN RemoveBrackets(SubSeq(s, First(After(s, 2, "]")) + 1, Len(s)))
    ELSE <<Head(s)>> \o RemoveBrackets(Tail(s))

\* re.sub(r"\((?!\d{4}\))[^)]*\)", "", s)
RECURSIVE RemoveParens(_)
RemoveParens(s) ==
    IF s = <<>> THEN s
    ELSE IF Head(s) = "(" /\ ~YearAt(s, 1) /\ After(s, 2, ")") # {}
    THEN RemoveParens(SubSeq(s, First(After(s, 2, ")")) + 1, Len(s)))
    ELSE <<Head(s)>> \o RemoveParens(Tail(s))

\* The clean movie name.
ParseName(raw) ==
    LET K == {k \in DOMAIN raw : NameEndsAt(raw, k + 1)}
        name == IF K # {} THEN strip(SubSeq(raw, 1, First(K)))
                ELSE IF After(raw, 1, "(") # {}
                THEN strip(SubSeq(raw, 1, First(After(raw, 1, "(")) - 1))
                ELSE strip(raw)
    IN strip(CollapseSpaces(RemoveParens(RemoveBrackets(name))))

\* The first label of the list found in raw, else the default.
RECURSIVE FirstLabel(_, _, _)
FirstLabel(labels, raw, default) ==
    IF labels = <<>> THEN default
    ELSE IF ContainsCI(raw, Head(labels).text) THEN Head(labels).name
    ELSE FirstLabel(Tail(labels), raw, default)

\* for q in QUALITY_LABELS: if q.lower() in raw.lower() and q not in qualities
RECURSIVE ScanQualities_AsFound(_, _, _)
ScanQualities_AsFound(labels, raw, qualities) ==
    LET hit == {i \in DOMAIN labels : Contains(Lowered(raw), Lowered(labels[i].text))}
        at(i) == First({p \in 1..(Len(raw) + 1) :
                           StartsAt(Lowered(raw), p, Lowered(labels[i].text))})
    IN IF hit = {} THEN qualities
       ELSE LET i == CHOOSE x \in hit : \A z \in hit : at(x) <= at(z) IN
            ScanQualities_AsFound(
                SubSeq(labels, 1, i - 1) \o SubSeq(labels, i + 1, Len(labels)),
                raw, Append(qualities, labels[i].name))

RECURSIVE ScanQualities(_, _, _)
ScanQualities(labels, raw, qualities) ==
    IF labels = <<>> THEN qualities
    ELSE IF /\ Contains(Lowered(raw), Lowered(Head(labels).text))
            /\ Head(labels).name \notin Range(qualities)
    THEN ScanQualities(Tail(labels), raw, Append(qualities, Head(labels).name))
    ELSE ScanQualities(Tail(labels), raw, qualities)

\* re.search(r"\bword\b", raw, re.IGNORECASE)
HasWord(raw, word) ==
    \E i \in DOMAIN raw :
        /\ StartsAt(Lowered(raw), i, Lowered(word))
        /\ i = 1 \/ ~IsWord(raw[i - 1])
        /\ i + Len(word) - 1 = Len(raw) \/ ~IsWord(raw[i + Len(word)])

\* The labels of LANGUAGE_LABELS found in raw, in the order of the list.
RECURSIVE ScanLanguages(_, _, _)
ScanLanguages(labels, raw, found) ==
    IF labels = <<>> THEN found
    ELSE IF /\ \E w \in DOMAIN Head(labels).words : HasWord(raw, Head(labels).words[w])
            /\ Head(labels) \notin Range(found)
    THEN ScanLanguages(Tail(labels), raw, Append(found, Head(labels)))
    ELSE ScanLanguages(Tail(labels), raw, found)

parse_languages_from_title(raw) ==
    LET found == ScanLanguages(LANGUAGE_LABELS, raw, <<>>) IN
    [i \in DOMAIN found |-> found[i].name]

\* " + ".join(found)
RECURSIVE Join(_)
Join(found) ==
    IF found = <<>> THEN <<>>
    ELSE IF Len(found) = 1 THEN Head(found).text
    ELSE Head(found).text \o <<" ", "+", " ">> \o Join(Tail(found))

\* (\d+(?:\.\d+)?\s*(?:GB|MB)) matches at i: the position after the match,
\* 0 when there is none.
SizeEnd(s, i) ==
    LET d == DigitsEnd(s, i)
        f == IF d <= Len(s) /\ s[d] = "." /\ DigitsEnd(s, d + 1) > d + 1
             THEN DigitsEnd(s, d + 1) ELSE d
        w == SpacesEnd(s, f)
    IN IF /\ d > i
          /\ w + 1 <= Len(s)
          /\ lower(s[w]) \in {"g", "m"}
          /\ lower(s[w + 1]) = "b"
       THEN w + 2 ELSE 0

\* re.findall(..., raw, re.IGNORECASE), each match stripped.
RECURSIVE FindSizes(_, _)
FindSizes(s, i) ==
    IF i > Len(s) THEN <<>>
    ELSE IF SizeEnd(s, i) # 0
    THEN <<strip(SubSeq(s, i, SizeEnd(s, i) - 1))>> \o FindSizes(s, SizeEnd(s, i))
    ELSE FindSizes(s, i + 1)

parse_title(raw) ==
    [title           |-> ParseName(raw),
     year            |-> ParseYear(raw),
     source_format   |-> FirstLabel(SOURCE_FORMATS, raw, "Unknown"),
     qualities       |-> ScanQualities(QUALITY_LABELS, raw, <<>>),
     codec           |-> FirstLabel(CODEC_LABELS, raw, PyNone),
     audio_format    |-> FirstLabel(AUDIO_FORMAT_LABELS, raw, PyNone),
     audio_languages |-> Join(ScanLanguages(LANGUAGE_LABELS, raw, <<>>)),
     file_sizes      |-> FindSizes(raw, 1)]

\* `x or ""` on a label.
OrEmpty(x) == IF x = PyNone THEN "" ELSE x

\* The file size of a variant past the end of file_sizes.
Unknown == <<"U", "n", "k", "n", "o", "w", "n">>

\* One variant per magnet, paired by index with qualities and file_sizes.
build_downloads_Zip(links, title) ==
    [i \in 1..Min(Len(links), Min(Len(title.qualities), Len(title.file_sizes))) |->
        [quality         |-> title.qualities[i],
         codec           |-> OrEmpty(title.codec),
         audio_format    |-> OrEmpty(title.audio_format),
         audio_languages |-> title.audio_languages,
         file_size       |-> title.file_sizes[i],
         magnet_url      |-> links[i],
         source_type     |-> "magnet"]]

build_downloads(links, title) ==
    [i \in DOMAIN links |->
        [quality         |-> IF i <= Len(title.qualities) THEN title.qualities[i] ELSE "Rip",
         codec           |-> OrEmpty(title.codec),
         audio_format    |-> OrEmpty(title.audio_format),
         audio_languages |-> title.audio_languages,
         file_size       |-> IF i <= Len(title.file_sizes) THEN title.file_sizes[i] ELSE Unknown,
         magnet_url      |-> links[i],
         source_type     |-> "magnet"]]

\* The pieces the raw titles are made of.
TitlePieces ==
    {<<"L", "e", "o", " ">>,
     <<"(", "2", "0", "2", "5", ")">>,
     <<"(", "1", "9", "9", "9", ")">>,
     <<"(", "1", "9", "9", "9", "7", ")">>,
     <<"(", "T", "a", "m", "i", "l", " ", "+", " ", "E", "n", "g", ")">>,
     <<" ", "-", " ", "[">>,
     <<"1", "0", "8", "0", "p">>,
     <<"7", "2", "0", "P">>,
     <<"4", "k">>,
     <<" ", "x", "2", "6", "4">>,
     <<" ", "3", ".", "3", "G", "B">>,
     <<"4", "5", "0", " ", "m", "b">>,
     <<" ", "B", "l", "u", "R", "a", "y">>,
     <<"]">>}

\* The raw titles: one to three pieces.
RawTitles ==
    TitlePieces
    \cup {a \o b : a \in TitlePieces, b \in TitlePieces}
    \cup {a \o b \o c : a \in TitlePieces, b \in TitlePieces, c \in TitlePieces}

\* The detail page of each locator: the text of its topic link and the
\* magnet links of its post.
DetailPages ==
    [u \in Urls |->
        IF u = 1
        THEN [raw_title |-> <<"7", "2", "0", "P">> \o <<"1", "0", "8", "0", "p">>
                              \o <<" ", "3", ".", "3", "G", "B">>,
              magnets   |-> <<"magnet:1", "magnet:2", "magnet:3">>]
        ELSE IF u = 2
        THEN [raw_title |-> <<"L", "e", "o", " ">> \o <<"(", "2", "0", "2", "5", ")">>,
              magnets   |-> <<>>]
        ELSE [raw_title |-> <<"L", "e", "o", " ">> \o <<"4", "k">>,
              magnets   |-> <<"magnet:1">>]]

\* The downloads of the record _fetch_one returns for locator u.
DownloadsOf_PerQuality(u) ==
    build_downloads_Zip(DetailPages[u].magnets, parse_title(DetailPages[u].raw_title))

DownloadsOf(u) ==
    build_downloads(DetailPages[u].magnets, parse_title(DetailPages[u].raw_title))

\* The movie_downloads rows of the movie with locator u that a run
\* stored: _save_batch adds one row per entry of the record's downloads
\* in the transaction that inserts the movie row.
StoredDownloads(d, u) == IF u \in StoredUrls(d) THEN DownloadsOf(u) ELSE <<>>

\* The magnet links found on a detail page.
MagnetLists == {<<>>, <<"magnet:1">>, <<"magnet:1", "magnet:2">>,
                <<"magnet:1", "magnet:2", "magnet:3">>}

NoParsed == parse_title(<<>>)

\* No title is being parsed.
ParseIdle ==
    /\ raw_title = <<>>
    /\ parsed = NoParsed
    /\ magnets = <<>>
    /\ downloads = <<>>
    /\ parse_pc = "idle"

(***************************************************************************)
(* The worker pool of enrich_and_save: ThreadPoolExecutor(max_workers)     *)
(* runs _fetch_one for every pending topic; the coordinator (the main      *)
(* thread) consumes the futures as they complete.                          *)
(***************************************************************************)
\* The --workers arguments tried.
WorkerArgs == {1, 2}

\* A thread of the executor is free to take the next work item.
PoolHasIdleThread_Unbounded(running, width) == TRUE

PoolHasIdleThread(running, width) == Cardinality(running) < width

\* The locators a worker thread is executing _fetch_one for.
Running == {u \in Urls : stage[u] = "running"}

\* The future as_completed yields after k futures were consumed.
NextCompleted_AsSubmitted(done, k) == pending[k + 1].url

NextCompleted(done, k) == done[k + 1]

\* No pool exists.
PoolIdle ==
    /\ workers = 0
    /\ stage = [u \in Urls |-> "none"]
    /\ pool_result = [u \in Urls |-> None]
    /\ finished = <<>>
    /\ life = [u \in Urls |-> <<>>]

(***************************************************************************)
(* update_images.py.  A Movie row and the dict of enrich() are functions   *)
(* over the fields _set is called for.                                     *)
(***************************************************************************)
ImageFields == {"poster_url", "backdrop_url"}

UpdatedFields == ImageFields \cup {"tmdb_id", "tmdb_rating", "synopsis", "runtime",
                                   "director", "actors"}

\* The values that hold "tmdb.org".
TmdbUrls == {"https://image.tmdb.org/old", "https://image.tmdb.org/new"}

\* The rows update_images can meet: scraped rows carry the forum's image
\* or none, OMDB data or none; rows of an earlier update carry TMDB's.
StoredMovies ==
    {m \in [UpdatedFields -> {PyNone, "", "0.0", "old", "forum.jpg", "https://image.tmdb.org/old"}] :
        /\ m["poster_url"] \in {PyNone, "", "forum.jpg", "https://image.tmdb.org/old"}
        /\ m["backdrop_url"] \in {PyNone, "forum.jpg", "https://image.tmdb.org/old"}
        /\ m["tmdb_id"] \in {PyNone, "old"}
        /\ m["tmdb_rating"] \in {PyNone, "0.0", "old"}
        /\ m["synopsis"] \in {PyNone, "old"}
        /\ m["runtime"] = m["synopsis"]
        /\ m["director"] = m["synopsis"]
        /\ m["actors"] = m["synopsis"]}

\* enrich(title, year): {} when the search finds nothing; else the five
\* keys of lines 118-124, and runtime, director and actors when tmdb_id
\* is set (lines 126-141).  Absent keys read as None through .get().
NotFound == [f \in UpdatedFields |-> Absent]

ImageLookups ==
    {NotFound} \cup
    {e \in [UpdatedFields -> {Absent, PyNone, "new", "https://image.tmdb.org/new"}] :
        /\ e["poster_url"] \in {PyNone, "https://image.tmdb.org/new"}
        /\ e["backdrop_url"] \in {PyNone, "https://image.tmdb.org/new"}
        /\ e["tmdb_id"] \in {PyNone, "new"}
        /\ e["tmdb_rating"] \in {PyNone, "new"}
        /\ e["synopsis"] \in {PyNone, "new"}
        /\ e["runtime"] \in (IF e["tmdb_id"] = PyNone THEN {Absent} ELSE {PyNone, "new"})
        /\ e["director"] = e["runtime"]
        /\ e["actors"] = e["runtime"]}

\* The filter of the query of run (lines 165-174).
Selected(all, m) ==
    \/ all
    \/ m["backdrop_url"] = PyNone
    \/ m["poster_url"] = PyNone
    \/ m["poster_url"] = ""
    \/ m["poster_url"] # PyNone /\ m["poster_url"] \notin TmdbUrls

\* _set(field, value) of lines 209-219: the field's value afterwards.
SetField_Always(all, field, cur, value) == IF value = Absent THEN PyNone ELSE value

SetField(all, field, cur, value) ==
    LET is_non_tmdb_img == field \in ImageFields /\ cur \notin Falsy /\ cur \notin TmdbUrls IN
    IF value \notin Falsy \cup {Absent} /\ (all \/ cur \in Falsy \/ is_non_tmdb_img)
    THEN value ELSE cur

\* No update is running.
ImagesIdle ==
    /\ overwrite = FALSE
    /\ movie = [f \in UpdatedFields |-> PyNone]
    /\ movie_before = [f \in UpdatedFields |-> PyNone]
    /\ image_enriched = NotFound
    /\ image_pc = "idle"

ExtraIdle == LinksIdle /\ RaceIdle /\ ParseIdle /\ PoolIdle /\ ImagesIdle

(***************************************************************************)
(* Initial state: a fresh movies table; the languages table seeded         *)
(* (main._seed_languages ran) or not; no run started.                      *)
(***************************************************************************)
CategoryIds == DOMAIN FORUM_CATEGORIES

\* Locators are numbered in order of first appearance on the site.
Canonical(st) ==
    LET all == Flatten([c \in CategoryIds |-> st[c]]) IN
    \A k \in DOMAIN all : all[k] = 1 \/ \E j \in 1 .. (k - 1) : all[j] = all[k] - 1

Sites == {st \in [CategoryIds -> Listings] : Canonical(st)}

SeededLanguages == {[id |-> 1, name |-> "Tamil"]}

NoPrev == [mode |-> NoMode, failed |-> FALSE, skipped |-> {}]

PipelineInit ==
    /\ site \in Sites
    /\ linksPerPage \in LinksPerPage
    /\ \E seeded \in BOOLEAN :
          /\ db = [movies |-> <<>>,
                   languages |-> IF seeded THEN SeededLanguages ELSE {},
                   links |-> {}, tx |-> EmptyTx, pend |-> {}]
          /\ nextId = IF seeded THEN 2 ELSE 1
    /\ runNo = 0
    /\ mode = NoMode
    /\ pc = "idle"
    /\ max_pages = 0
    /\ batch_size = 0
    /\ cat = 0
    /\ page = 0
    /\ all_topics = <<>>
    /\ seen_urls = {}
    /\ existing = {}
    /\ pending = <<>>
    /\ completed = {}
    /\ batch = <<>>
    /\ total_saved = 0
    /\ language_cache = {}
    /\ existing_urls = {}
    /\ new_topics = <<>>
    /\ idx = 0
    /\ total_added = 0
    /\ raised = FALSE
    /\ interrupted = FALSE
    /\ storeAtStart = {}
    /\ loads = 0
    /\ results = <<>>
    /\ flushes = <<>>
    /\ failed = FALSE
    /\ prev = NoPrev
    /\ ticks = 0

\* The pipelines run with enrichment and retries abstracted into the
\* outcome of each fetch.
Init ==
    /\ PipelineInit
    /\ RetryIdle
    /\ EnrichIdle
    /\ TMDB_BEARER_TOKEN = FALSE
    /\ OMDB_API_KEY = FALSE
    /\ ExtraIdle

\* What every run start resets.
ResetRun ==
    /\ db' = DbRollback(db)          \* a new session; the old one was closed
    /\ cat' = 1
    /\ page' = 1
    /\ all_topics' = <<>>
    /\ seen_urls' = {}
    /\ existing' = {}
    /\ pending' = <<>>
    /\ completed' = {}
    /\ batch' = <<>>
    /\ total_saved' = 0
    /\ language_cache' = {}
    /\ new_topics' = <<>>
    /\ idx' = 0
    /\ total_added' = 0
    /\ raised' = FALSE
    /\ interrupted' = FALSE
    /\ storeAtStart' = StoredUrls(db)
    /\ results' = <<>>
    /\ flushes' = <<>>
    /\ failed' = FALSE
    /\ prev' = [mode |-> mode, failed |-> failed,
                 skipped |-> IF mode = "incr" /\ mode' = "incr"
                             THEN {results[k].url : k \in {j \in DOMAIN results : ~results[j].ok}}
                             ELSE {}]
    /\ ticks' = 0
    /\ runNo' = runNo + 1
    /\ UNCHANGED <<site, linksPerPage, nextId>>
    /\ UNCHANGED auxVars

(***************************************************************************)
(* Bulk run: initial_scrape.__main__                                       *)
(***************************************************************************)
\* python initial_scrape.py --max-pages mp --batch bs
BulkStart ==
    /\ pc \in {"idle", "done"}
    /\ runNo < MaxRuns
    /\ \E mp \in MaxPagesArgs, bs \in 1 .. MaxBatch :
          /\ max_pages' = mp
          /\ batch_size' = bs
    /\ mode' = "bulk"
    /\ pc' = "harvest"
    /\ existing_urls' = {}
    /\ loads' = 0
    /\ ResetRun

\* Where harvest_all_urls goes when the page loop of category cat ends.
HarvestLeaveCategory(topics) ==
    IF cat < Len(FORUM_CATEGORIES)
    THEN /\ cat' = cat + 1
         /\ page' = 1
         /\ pc' = "harvest"
    ELSE /\ cat' = cat
         /\ page' = page
         /\ pc' = IF topics = <<>> THEN "done" ELSE "enrich"

\* Lines 80 and 117-119: the page loop of a category ends after this page.
StopPaging_IgnoresLimit(new, p, mp) == new = <<>>

StopPaging(new, p, mp) == new = <<>> \/ p = mp

\* Lines 123-125: a page fetch raised; log and break out of the page loop.
HarvestBreak_Abort(topics) ==
    /\ cat' = cat
    /\ page' = page
    /\ pc' = IF topics = <<>> THEN "done" ELSE "enrich"

HarvestBreak(topics) == HarvestLeaveCategory(topics)

\* One iteration of the page loop: fetch index page `page` of category
\* `cat` and scan its links.
HarvestPage ==
    /\ mode = "bulk"
    /\ pc = "harvest"
    /\ ticks' = ticks + 1
    /\ \E ok \in BOOLEAN :
          IF ~ok
          THEN \* _get_with_retry raised: logged, the category's loop breaks
               /\ failed' = TRUE
               /\ UNCHANGED <<all_topics, seen_urls>>
               /\ HarvestBreak(all_topics)
          ELSE LET new == NewOnPage(PageLinks(cat, page), seen_urls) IN
               /\ all_topics' = all_topics \o TopicsOf(new, cat)
               /\ seen_urls' = seen_urls \cup Range(new)
               /\ failed' = failed
               /\ IF StopPaging(new, page, max_pages)
                  THEN HarvestLeaveCategory(all_topics')
                  ELSE /\ page' = page + 1
                       /\ UNCHANGED <<cat, pc>>
    /\ UNCHANGED auxVars
    /\ UNCHANGED <<site, linksPerPage, db, nextId, runNo, mode, max_pages, batch_size,
                   existing, pending, completed, batch, total_saved, language_cache,
                   existing_urls, new_topics, idx, total_added, raised, interrupted,
                   storeAtStart, loads, results, flushes, prev>>

(***************************************************************************)
(* initial_scrape.enrich_and_save                                          *)
(***************************************************************************)
\* Lines 233-249: load the stored locators, filter, submit the workers.
EnrichStart ==
    /\ mode = "bulk"
    /\ pc = "enrich"
    /\ existing' = StoredUrls(db)
    /\ loads' = loads + 1
    /\ pending' = PendingOf(all_topics, existing')
    /\ pc' = IF pending' = <<>> THEN "final" ELSE "collect"
    /\ ticks' = ticks + 1
    /\ UNCHANGED auxVars
    /\ UNCHANGED <<site, linksPerPage, db, nextId, runNo, mode, max_pages, batch_size,
                   cat, page, all_topics, seen_urls, completed, batch, total_saved,
                   language_cache, existing_urls, new_topics, idx, total_added,
                   raised, interrupted, storeAtStart, results, flushes, failed, prev>>

\* One iteration of the as_completed loop (lines 251-260): the future of
\* pending[i] is the next to complete; its result joins the batch, and a
\* full batch is flushed.
Collect ==
    /\ mode = "bulk"
    /\ pc = "collect"
    /\ ticks' = ticks + 1
    /\ \E i \in DOMAIN pending \ completed, ok \in BOOLEAN :
          LET result == fetch_one(pending[i], ok)
              batch1 == IF result.kind = "data" THEN Append(batch, result) ELSE batch
              flush  == result.kind # "raise" /\ ShouldFlush(batch1, batch_size)
          IN  /\ completed' = completed \cup {i}
              /\ results' = Append(results, [url |-> pending[i].url, ok |-> ok])
              /\ raised' = (result.kind = "raise")
              /\ pc' = IF result.kind = "raise" THEN "done"
                        ELSE IF completed' = DOMAIN pending THEN "final" ELSE "collect"
              /\ IF flush
                 THEN \E failAt \in FailPoints(batch1) :
                        LET r == save_batch(db, batch1, language_cache, nextId, failAt) IN
                        /\ db' = r.db
                        /\ language_cache' = r.cache
                        /\ nextId' = r.nextId
                        /\ total_saved' = total_saved + r.saved
                        /\ batch' = <<>>
                        /\ flushes' = Append(flushes, FlushRecord(batch1, failAt, r, FALSE))
                        /\ failed' = (failed \/ ~ok \/ ~r.ok)
                 ELSE /\ batch' = batch1
                      /\ failed' = (failed \/ ~ok)
                      /\ UNCHANGED <<db, language_cache, nextId, total_saved, flushes>>
    /\ UNCHANGED auxVars
    /\ UNCHANGED <<site, linksPerPage, runNo, mode, max_pages, batch_size, cat, page,
                   all_topics, seen_urls, existing, pending, existing_urls, new_topics,
                   idx, total_added, interrupted, storeAtStart, loads, prev>>

\* Lines 262-268: the final partial batch and the summary.
FinalFlush ==
    /\ mode = "bulk"
    /\ pc = "final"
    /\ pc' = "done"
    /\ ticks' = ticks + 1
    /\ IF batch # <<>>
       THEN \E failAt \in FailPoints(batch) :
              LET r == save_batch(db, batch, language_cache, nextId, failAt) IN
              /\ db' = r.db
              /\ language_cache' = r.cache
              /\ nextId' = r.nextId
              /\ total_saved' = total_saved + r.saved
              /\ flushes' = Append(flushes, FlushRecord(batch, failAt, r, TRUE))
              /\ failed' = (failed \/ ~r.ok)
       ELSE UNCHANGED <<db, language_cache, nextId, total_saved, flushes, failed>>
    /\ UNCHANGED auxVars
    /\ UNCHANGED <<site, linksPerPage, runNo, mode, max_pages, batch_size, cat, page,
                   all_topics, seen_urls, existing, pending, completed, batch,
                   existing_urls, new_topics, idx, total_added, raised, interrupted,
                   storeAtStart, loads, results, prev>>

(***************************************************************************)
(* Incremental run: scraper.scrape_and_save_movies                         *)
(***************************************************************************)
\* The scan of a category's first page (lines 333-344): qualifying links
\* are collected until one is in the known set.
ScanUntilKnown_SkipKnown(links, known) == SelectSeq(links, LAMBDA u : u \notin known)

RECURSIVE ScanUntilKnown(_, _)
ScanUntilKnown(links, known) ==
    IF links = <<>> \/ Head(links) \in known THEN <<>>
    ELSE <<Head(links)>> \o ScanUntilKnown(Tail(links), known)

\* _fetch_movie_detail: the record, or None when anything raised.
fetch_movie_detail(t, ok) ==
    IF ok THEN Data(t.url, t.lang) ELSE None

\* Lines 353-372 for one fetched record.  The result carries added: the
\* statement existing_urls.add(url) was reached.
CronSaveItem(s, data, inject) ==
    IF inject THEN [s EXCEPT !.ok = FALSE] @@ [added |-> FALSE]
    ELSE IF HasSourceUrl(s.db, data.source_url) THEN s @@ [added |-> FALSE]
    ELSE LET a == AddMovieAndFlush(s.db, data.source_url) IN
         IF ~a.ok THEN [s EXCEPT !.ok = FALSE] @@ [added |-> FALSE]
         ELSE LET l == LinkLanguages([s EXCEPT !.db = a.db, !.saved = @ + 1],
                                     data.source_url, data.language)
              IN  l @@ [added |-> l.ok]

\* Lines 315-323.
CronStart ==
    /\ pc \in {"idle", "done"}
    /\ runNo < MaxRuns
    /\ mode' = "incr"
    /\ pc' = "scan"
    /\ existing_urls' = StoredUrls(db)
    /\ loads' = 1
    /\ max_pages' = 0
    /\ batch_size' = 0
    /\ ResetRun

\* Where the category loop goes when the body for category cat ends.
CronLeaveCategory ==
    IF cat < Len(FORUM_CATEGORIES)
    THEN /\ cat' = cat + 1
         /\ pc' = "scan"
    ELSE /\ cat' = cat
         /\ pc' = "done"

\* Lines 326-346: fetch the category's first page and scan it.
CronScan ==
    /\ mode = "incr"
    /\ pc = "scan"
    /\ ticks' = ticks + 1
    /\ \E ok \in BOOLEAN :
          IF ~ok
          THEN \* the category's except: log, db.rollback()
               /\ db' = DbRollback(db)
               /\ failed' = TRUE
               /\ new_topics' = <<>>
               /\ idx' = 0
               /\ CronLeaveCategory
          ELSE /\ new_topics' = TopicsOf(ScanUntilKnown(PageLinks(cat, 1), existing_urls), cat)
               /\ idx' = 1
               /\ pc' = IF new_topics' = <<>> THEN "commit" ELSE "item"
               /\ UNCHANGED <<db, failed, cat>>
    /\ UNCHANGED auxVars
    /\ UNCHANGED <<site, linksPerPage, nextId, runNo, mode, max_pages, batch_size, page,
                   all_topics, seen_urls, existing, pending, completed, batch,
                   total_saved, language_cache, existing_urls, total_added, raised,
                   interrupted, storeAtStart, loads, results, flushes, prev>>

\* Lines 348-372 for new_topics[idx].
CronItem ==
    /\ mode = "incr"
    /\ pc = "item"
    /\ ticks' = ticks + 1
    /\ \E ok \in BOOLEAN, inject \in BOOLEAN :
          LET t    == new_topics[idx]
              data == fetch_movie_detail(t, ok)
          IN  /\ ok \/ ~inject
              /\ results' = Append(results, [url |-> t.url, ok |-> data.kind = "data"])
              /\ IF data.kind # "data"
                 THEN /\ failed' = TRUE
                      /\ idx' = idx + 1
                      /\ pc' = IF idx = Len(new_topics) THEN "commit" ELSE "item"
                      /\ UNCHANGED <<db, language_cache, nextId, total_added,
                                     existing_urls, cat>>
                 ELSE LET r == CronSaveItem([db |-> db, cache |-> language_cache,
                                             nextId |-> nextId, saved |-> total_added,
                                             ok |-> TRUE], data, inject)
                      IN  /\ language_cache' = r.cache
                          /\ nextId' = r.nextId
                          /\ total_added' = r.saved
                          /\ existing_urls' = IF r.added THEN existing_urls \cup {t.url}
                                              ELSE existing_urls
                          /\ failed' = (failed \/ ~r.ok)
                          /\ IF r.ok
                             THEN /\ db' = r.db
                                  /\ idx' = idx + 1
                                  /\ pc' = IF idx = Len(new_topics) THEN "commit" ELSE "item"
                                  /\ cat' = cat
                             ELSE \* the category's except: log, db.rollback()
                                  /\ db' = DbRollback(r.db)
                                  /\ idx' = idx
                                  /\ CronLeaveCategory
    /\ UNCHANGED auxVars
    /\ UNCHANGED <<site, linksPerPage, runNo, mode, max_pages, batch_size, page,
                   all_topics, seen_urls, existing, pending, completed, batch,
                   total_saved, new_topics, raised, interrupted, storeAtStart, loads,
                   flushes, prev>>

\* Lines 374-379: the category's commit.
CronCommit ==
    /\ mode = "incr"
    /\ pc = "commit"
    /\ ticks' = ticks + 1
    /\ \E inject \in BOOLEAN :
          LET c == IF inject THEN [ok |-> FALSE, db |-> db] ELSE DbCommit(db) IN
          /\ db' = IF c.ok THEN c.db ELSE DbRollback(db)
          /\ failed' = (failed \/ ~c.ok)
    /\ CronLeaveCategory
    /\ UNCHANGED auxVars
    /\ UNCHANGED <<site, linksPerPage, nextId, runNo, mode, max_pages, batch_size, page,
                   all_topics, seen_urls, existing, pending, completed, batch,
                   total_saved, language_cache, existing_urls, new_topics, idx,
                   total_added, raised, interrupted, storeAtStart, loads, results,
                   flushes, prev>>

(***************************************************************************)
(* Specifications.                                                         *)
(***************************************************************************)
Next ==
    \/ BulkStart
    \/ HarvestPage
    \/ EnrichStart
    \/ Collect
    \/ FinalFlush
    \/ CronStart
    \/ CronScan
    \/ CronItem
    \/ CronCommit

Spec == Init /\ [][Next]_vars

(***************************************************************************)
(* A KeyboardInterrupt delivered to a bulk run.  Neither enrich_and_save   *)
(* nor __main__ handles it: the executor's with-block waits for the        *)
(* workers, the exception leaves enrich_and_save, and the finally clause   *)
(* of __main__ closes the session, which rolls its transaction back.  The  *)
(* batch variable keeps what memory held when the process exited.          *)
(***************************************************************************)
Interrupt ==
    /\ mode = "bulk"
    /\ pc \in {"harvest", "enrich", "collect", "final"}
    /\ interrupted' = TRUE
    /\ pc' = "done"
    /\ db' = DbRollback(db)
    /\ ticks' = ticks + 1
    /\ UNCHANGED auxVars
    /\ UNCHANGED <<site, linksPerPage, nextId, runNo, mode, max_pages, batch_size, cat,
                   page, all_topics, seen_urls, existing, pending, completed, batch,
                   total_saved, language_cache, existing_urls, new_topics, idx,
                   total_added, raised, storeAtStart, loads, results, flushes, failed,
                   prev>>

NextInt == Next \/ Interrupt

SpecInt == Init /\ [][NextInt]_vars

(***************************************************************************)
(* _get_with_retry as a process of its own: calls with every retries       *)
(* argument and every sequence of request outcomes, the pipelines idle.    *)
(***************************************************************************)
\* _get_with_retry(url, retries=n) is entered.  With n <= 0 the range is
\* empty and the function returns None without a request.
RetryCall ==
    /\ rpc \in {"idle", "returned", "raised"}
    /\ \E n \in -1 .. MaxRetries :
          /\ retries' = n
          /\ rpc' = IF n <= 0 THEN "returned" ELSE "try"
    /\ attempt' = 1
    /\ outcomes' = <<>>
    /\ sleeps' = <<>>
    /\ error' = NoError
    /\ UNCHANGED <<pipelineVars, enrichVars, TMDB_BEARER_TOKEN, OMDB_API_KEY, extraVars>>

\* One iteration of the loop (lines 70-80): the request, and what follows
\* its outcome.
RetryAttempt ==
    /\ rpc = "try"
    /\ \E o \in RequestOutcomes :
          /\ outcomes' = Append(outcomes, o)
          /\ IF o = "ok"
             THEN /\ rpc' = "returned"
                  /\ UNCHANGED <<attempt, sleeps, error>>
             ELSE IF o \notin RequestExceptions \/ attempt = retries
             THEN /\ rpc' = "raised"
                  /\ error' = o
                  /\ UNCHANGED <<attempt, sleeps>>
             ELSE /\ sleeps' = Append(sleeps, Backoff(attempt))
                  /\ attempt' = attempt + 1
                  /\ UNCHANGED <<rpc, error>>
    /\ UNCHANGED retries
    /\ UNCHANGED <<pipelineVars, enrichVars, TMDB_BEARER_TOKEN, OMDB_API_KEY, extraVars>>

\* An empty site and an unseeded store: the pipelines have nothing to do.
PipelinesIdle ==
    /\ site = [c \in CategoryIds |-> <<>>]
    /\ linksPerPage = 1
    /\ db.languages = {}

InitRetry == Init /\ PipelinesIdle

NextRetry ==
    \/ RetryCall
    \/ RetryAttempt

SpecRetry == InitRetry /\ [][NextRetry]_vars

(***************************************************************************)
(* _fetch_movie_detail with _enrich as a process of its own: the topics of *)
(* one incremental run are fetched, enriched and persisted one after       *)
(* another, with every combination of credentials and provider answers.    *)
(***************************************************************************)
\* The topics the run works on.
EnrichTopics == {1, 2}

\* The topic being worked on: the first one not in the store.
CurrentTopic ==
    CHOOSE u \in EnrichTopics \ StoredUrls(db) :
      \A v \in EnrichTopics \ StoredUrls(db) : u <= v

\* The pipeline variables an enrichment step leaves alone.
enrichFrame ==
    <<site, linksPerPage, runNo, mode, pc, max_pages, batch_size, cat, page,
      all_topics, seen_urls, existing, pending, completed, batch, total_saved,
      existing_urls, new_topics, idx, total_added, raised, interrupted,
      storeAtStart, loads, results, flushes, failed, prev, ticks,
      retryVars, TMDB_BEARER_TOKEN, OMDB_API_KEY, extraVars>>

\* _fetch_movie_detail has parsed the title and enters _enrich(title, y).
EnrichCall ==
    /\ epc \in {"idle", "persisted"}
    /\ EnrichTopics \ StoredUrls(db) # {}
    /\ \E y \in Years : year' = y
    /\ epc' = "tmdb"
    /\ tmdb' = EmptyDict
    /\ omdb' = EmptyDict
    /\ calls' = <<>>
    /\ queries' = <<>>
    /\ failures' = {}
    /\ enriched' = EmptyDict
    /\ record' = NoRecord
    /\ UNCHANGED <<tmdb_cache, db, nextId, language_cache, enrichFrame>>

\* Line 208: tmdb = _tmdb_enrich(title, year), through the lru_cache.
TmdbEnrich ==
    /\ epc = "tmdb"
    /\ calls' = Append(calls, "tmdb")
    /\ IF tmdb_cache[year].cached
       THEN /\ tmdb' = tmdb_cache[year].result
            /\ epc' = "omdb"
            /\ UNCHANGED <<tmdb_cache, queries, failures>>
       ELSE \E a1 \in TmdbAnswers, a2 \in TmdbAnswers :
              LET l == tmdb_enrich(TMDB_BEARER_TOKEN, year, a1, a2) IN
              /\ tmdb' = l.result
              /\ queries' = queries \o l.sent
              /\ failures' = IF l.failure THEN failures \cup {"tmdb"} ELSE failures
              /\ tmdb_cache' = IF l.raised THEN tmdb_cache
                               ELSE [tmdb_cache EXCEPT ![year] = Cached(l)]
              /\ epc' = IF l.raised THEN "raised" ELSE "omdb"
    /\ UNCHANGED <<year, omdb, enriched, record, db, nextId, language_cache, enrichFrame>>

\* Lines 209-213: omdb = _omdb_enrich(title, year) in either branch, and
\* the return value of _enrich.
OmdbEnrich ==
    /\ epc = "omdb"
    /\ calls' = Append(calls, "omdb")
    /\ \E b1 \in OmdbAnswers, b2 \in OmdbAnswers :
          LET l == omdb_enrich(OMDB_API_KEY, year, b1, b2) IN
          /\ omdb' = l.result
          /\ queries' = queries \o l.sent
          /\ failures' = IF l.failure THEN failures \cup {"omdb"} ELSE failures
          /\ enriched' = IF l.raised THEN enriched ELSE enrich(tmdb, l.result)
          /\ epc' = IF l.raised THEN "raised" ELSE "enriched"
    /\ UNCHANGED <<tmdb_cache, year, tmdb, record, db, nextId, language_cache, enrichFrame>>

\* Lines 288-304 of _fetch_movie_detail, then lines 352-374 of
\* scrape_and_save_movies for the record, with a working database.
PersistItem ==
    /\ epc = "enriched"
    /\ epc' = "persisted"
    /\ \E page_poster \in {PyNone, "P"} :
          record' = MovieRecord(CurrentTopic, FORUM_CATEGORIES[1], enriched, page_poster)
    /\ LET r == CronSaveItem([db |-> db, cache |-> language_cache, nextId |-> nextId,
                              saved |-> 0, ok |-> TRUE],
                             Data(CurrentTopic, FORUM_CATEGORIES[1]), FALSE)
       IN  /\ db' = DbCommit(r.db).db
           /\ nextId' = r.nextId
           /\ language_cache' = r.cache
    /\ UNCHANGED <<tmdb_cache, year, tmdb, omdb, calls, queries, failures, enriched,
                   enrichFrame>>

InitEnrich ==
    /\ PipelineInit
    /\ PipelinesIdle
    /\ RetryIdle
    /\ EnrichIdle
    /\ TMDB_BEARER_TOKEN \in BOOLEAN
    /\ OMDB_API_KEY \in BOOLEAN
    /\ ExtraIdle

NextEnrich ==
    \/ EnrichCall
    \/ TmdbEnrich
    \/ OmdbEnrich
    \/ PersistItem

SpecEnrich == InitEnrich /\ [][NextEnrich]_vars

(***************************************************************************)
(* The link filter as a process of its own: a page of links is scanned by  *)
(* one of the two pipelines, and a record is persisted for every topic.    *)
(***************************************************************************)
\* Everything but the pipelines and the retry / enrichment processes.
quietVars == <<pipelineVars, retryVars, enrichVars, TMDB_BEARER_TOKEN, OMDB_API_KEY>>

\* The scan of the page by harvest_all_urls or scrape_and_save_movies, on
\* an empty store and an empty seen_urls.
LinkScan ==
    /\ link_pc = "idle"
    /\ \E m \in {"bulk", "incr"} :
          /\ scan_mode' = m
          /\ link_topics' = {i \in DOMAIN page_links : Qualifies(m, page_links[i])}
    /\ link_pc' = "scanned"
    /\ UNCHANGED <<page_links, link_persisted, quietVars, raceVars, parseVars, poolVars, imageVars>>

\* The run fetches every topic's detail page and persists its record.
LinkPersist ==
    /\ link_pc = "scanned"
    /\ link_persisted' = link_topics
    /\ link_pc' = "persisted"
    /\ UNCHANGED <<page_links, scan_mode, link_topics, quietVars, raceVars, parseVars, poolVars, imageVars>>

InitLinks ==
    /\ PipelineInit
    /\ PipelinesIdle
    /\ RetryIdle
    /\ EnrichIdle
    /\ TMDB_BEARER_TOKEN = FALSE
    /\ OMDB_API_KEY = FALSE
    /\ page_links \in LinkPages
    /\ scan_mode = NoMode
    /\ link_pc = "idle"
    /\ link_topics = {}
    /\ link_persisted = {}
    /\ RaceIdle
    /\ ParseIdle
    /\ PoolIdle
    /\ ImagesIdle

NextLinks ==
    \/ LinkScan
    \/ LinkPersist

SpecLinks == InitLinks /\ [][NextLinks]_vars

(***************************************************************************)
(* Overlapping runs on one store.                                          *)
(***************************************************************************)
raceFrame == <<quietVars, linkVars, parseVars, poolVars, imageVars>>

\* The locator the run is at.
RaceUrl(r) == Head(Head(race_work[r]))

\* The run goes on with the next item of its scope.
RaceNextItem(r) == [race_work EXCEPT ![r] = <<Tail(Head(@))>> \o Tail(@)]

\* The run leaves its scope.
RaceNextScope(r) == [race_work EXCEPT ![r] = Tail(@)]

\* Another run's open transaction holds the index entry for u.
RaceBlocked(r, u) == \E o \in Runs \ {r} : UniqueKeyHeld(race_tx[o], u)

\* db.query(models.Movie).filter(source_url == ...).first()
RaceCheck(r) ==
    /\ race_pc[r] = "check"
    /\ race_work[r] # <<>>
    /\ Head(race_work[r]) # <<>>
    /\ LET view == ReadView(race_level, race_open[r], race_snap[r], race_store) IN
        /\ race_open' = [race_open EXCEPT ![r] = TRUE]
        /\ race_snap' = [race_snap EXCEPT ![r] = view]
        /\ IF \E i \in DOMAIN (view \o race_tx[r]) :
                  SameLocator((view \o race_tx[r])[i], RaceUrl(r))
           THEN /\ race_work' = RaceNextItem(r)
                /\ UNCHANGED race_pc
           ELSE /\ race_pc' = [race_pc EXCEPT ![r] = "insert"]
                /\ UNCHANGED race_work
    /\ UNCHANGED <<race_store, race_level, race_tx, race_hits, raceFrame>>

\* except Exception: db.rollback(); the scope is abandoned.
RaceRollback(r) ==
    /\ race_hits' = race_hits \cup {<<r, RaceUrl(r)>>}
    /\ race_tx' = [race_tx EXCEPT ![r] = <<>>]
    /\ race_open' = [race_open EXCEPT ![r] = FALSE]
    /\ race_work' = RaceNextScope(r)
    /\ race_pc' = [race_pc EXCEPT ![r] = "check"]

\* db.add(movie_obj); db.flush(): the INSERT waits while another
\* transaction holds the key, and raises IntegrityError on a committed one.
RaceInsert(r) ==
    /\ race_pc[r] = "insert"
    /\ ~RaceBlocked(r, RaceUrl(r))
    /\ IF UniqueKeyHeld(race_store \o race_tx[r], RaceUrl(r))
       THEN RaceRollback(r)
       ELSE /\ race_tx' = [race_tx EXCEPT ![r] = Append(@, RaceUrl(r))]
            /\ race_open' = [race_open EXCEPT ![r] = TRUE]
            /\ race_work' = RaceNextItem(r)
            /\ race_pc' = [race_pc EXCEPT ![r] = "check"]
            /\ UNCHANGED race_hits
    /\ UNCHANGED <<race_store, race_level, race_snap, raceFrame>>

\* The waiting INSERT ends with a lock wait timeout or as deadlock victim.
RaceTimeout(r) ==
    /\ race_pc[r] = "insert"
    /\ RaceBlocked(r, RaceUrl(r))
    /\ RaceRollback(r)
    /\ UNCHANGED <<race_store, race_level, race_snap, raceFrame>>

\* db.commit() at the end of the scope.
RaceCommit(r) ==
    /\ race_pc[r] = "check"
    /\ race_work[r] # <<>>
    /\ Head(race_work[r]) = <<>>
    /\ race_store' = race_store \o race_tx[r]
    /\ race_tx' = [race_tx EXCEPT ![r] = <<>>]
    /\ race_open' = [race_open EXCEPT ![r] = FALSE]
    /\ race_work' = RaceNextScope(r)
    /\ UNCHANGED <<race_level, race_snap, race_pc, race_hits, raceFrame>>

InitRace ==
    /\ PipelineInit
    /\ PipelinesIdle
    /\ RetryIdle
    /\ EnrichIdle
    /\ TMDB_BEARER_TOKEN = FALSE
    /\ OMDB_API_KEY = FALSE
    /\ LinksIdle
    /\ ParseIdle
    /\ PoolIdle
    /\ ImagesIdle
    /\ race_store \in {<<>>} \cup {<<u>> : u \in Urls}
    /\ race_level \in IsolationLevels
    /\ race_tx = [r \in Runs |-> <<>>]
    /\ race_open = [r \in Runs |-> FALSE]
    /\ race_snap = [r \in Runs |-> <<>>]
    /\ race_work \in [Runs -> Works]
    /\ race_pc = [r \in Runs |-> "check"]
    /\ race_hits = {}

NextRace ==
    \/ \E r \in Runs : RaceCheck(r)
    \/ \E r \in Runs : RaceInsert(r)
    \/ \E r \in Runs : RaceTimeout(r)
    \/ \E r \in Runs : RaceCommit(r)

SpecRace == InitRace /\ [][NextRace]_vars

(***************************************************************************)
(* The title parser as a process of its own: a raw title is parsed, then   *)
(* the download variants are built for the magnets of its page             *)
(* (_fetch_one lines 143-156, _fetch_movie_detail lines 269-281).          *)
(***************************************************************************)
parseFrame == <<quietVars, linkVars, raceVars, poolVars, imageVars>>

ParseTitle ==
    /\ parse_pc = "raw"
    /\ parsed' = parse_title(raw_title)
    /\ parse_pc' = "parsed"
    /\ UNCHANGED <<raw_title, magnets, downloads, parseFrame>>

BuildDownloads ==
    /\ parse_pc = "parsed"
    /\ \E m \in MagnetLists :
          /\ magnets' = m
          /\ downloads' = build_downloads(m, parsed)
    /\ parse_pc' = "built"
    /\ UNCHANGED <<raw_title, parsed, parseFrame>>

InitParse ==
    /\ PipelineInit
    /\ PipelinesIdle
    /\ RetryIdle
    /\ EnrichIdle
    /\ TMDB_BEARER_TOKEN = FALSE
    /\ OMDB_API_KEY = FALSE
    /\ LinksIdle
    /\ RaceIdle
    /\ PoolIdle
    /\ ImagesIdle
    /\ raw_title \in RawTitles
    /\ parsed = NoParsed
    /\ magnets = <<>>
    /\ downloads = <<>>
    /\ parse_pc = "raw"

NextParse ==
    \/ ParseTitle
    \/ BuildDownloads

SpecParse == InitParse /\ [][NextParse]_vars

(***************************************************************************)
(* Phase 2 of the bulk run, thread by thread.                              *)
(***************************************************************************)
poolFrame == <<retryVars, enrichVars, TMDB_BEARER_TOKEN, OMDB_API_KEY,
               linkVars, raceVars, parseVars, imageVars>>

\* The pipeline variables phase 2 leaves alone.
poolFixed == <<site, linksPerPage, runNo, mode, max_pages, batch_size, cat, page,
               all_topics, seen_urls, existing_urls, new_topics, idx, total_added,
               interrupted, storeAtStart, prev, ticks>>

\* The topic of pending with locator u.
PendingTopic(u) == pending[CHOOSE k \in DOMAIN pending : pending[k].url = u]

\* The states the items of a batch go through in _save_batch(items) called
\* on store d with result r: the existence re-check for the items the loop
\* reached, then the outcome of the transaction.
FlushLife(l, items, failAt, r, d) ==
    [u \in Urls |->
        IF \A k \in DOMAIN items : items[k].source_url # u THEN l[u]
        ELSE LET k == CHOOSE j \in DOMAIN items : items[j].source_url = u
                 checked == k < r.tried \/ (k = r.tried /\ failAt # k)
                 exists == HasSourceUrl(d, u)
             IN l[u]
                \o (IF checked THEN <<IF exists THEN "Dropped" ELSE "Deduped">> ELSE <<>>)
                \o (IF r.ok /\ checked /\ exists THEN <<>>
                    ELSE <<IF r.ok THEN "Committed" ELSE "Failed">>)]

\* Lines 233-249: load the stored locators, filter, create the executor
\* and submit one _fetch_one per pending topic.
PoolStart ==
    /\ mode = "bulk"
    /\ pc = "enrich"
    /\ existing' = StoredUrls(db)
    /\ loads' = loads + 1
    /\ pending' = PendingOf(all_topics, existing')
    /\ pc' = IF pending' = <<>> THEN "final" ELSE "collect"
    /\ stage' = [u \in Urls |-> IF u \in TopicUrls(pending') THEN "queued" ELSE "none"]
    /\ life' = [u \in Urls |->
                  IF u \in TopicUrls(pending') THEN <<"Pending">>
                  ELSE IF u \in TopicUrls(all_topics) THEN <<"Pending", "Dropped">>
                  ELSE <<>>]
    /\ UNCHANGED <<workers, pool_result, finished, poolFrame, poolFixed>>
    /\ UNCHANGED <<db, nextId, completed, batch, total_saved, language_cache,
                   raised, results, flushes, failed>>

\* A free thread of the executor takes the oldest queued work item and
\* enters _fetch_one with it (the pause and the request of lines 139-140).
WorkerStart ==
    /\ mode = "bulk"
    /\ pc = "collect"
    /\ PoolHasIdleThread(Running, workers)
    /\ \E k \in DOMAIN pending :
          /\ stage[pending[k].url] = "queued"
          /\ \A j \in 1 .. (k - 1) : stage[pending[j].url] # "queued"
          /\ stage' = [stage EXCEPT ![pending[k].url] = "running"]
          /\ life' = [life EXCEPT ![pending[k].url] = Append(@, "Fetching")]
    /\ UNCHANGED <<workers, pool_result, finished, poolFrame, poolFixed>>
    /\ UNCHANGED <<pc, db, nextId, existing, pending, completed, batch, total_saved,
                   language_cache, raised, loads, results, flushes, failed>>

\* A worker that puts its record into the coordinator's batch itself.
WorkerFinish_WritesBatch(u) ==
    /\ mode = "bulk"
    /\ pc = "collect"
    /\ stage[u] = "running"
    /\ \E ok \in BOOLEAN :
          /\ pool_result' = [pool_result EXCEPT ![u] = fetch_one(PendingTopic(u), ok)]
          /\ life' = [life EXCEPT ![u] = Append(@, IF ok THEN "Parsed" ELSE "Failed")]
          /\ batch' = IF ok THEN Append(batch, fetch_one(PendingTopic(u), ok)) ELSE batch
    /\ stage' = [stage EXCEPT ![u] = "done"]
    /\ finished' = Append(finished, u)
    /\ UNCHANGED <<workers, poolFrame, poolFixed>>
    /\ UNCHANGED <<pc, db, nextId, existing, pending, completed, total_saved,
                   language_cache, raised, loads, results, flushes, failed>>

\* The rest of _fetch_one (lines 141-182): the response arrives or the
\* request raises; the title is parsed and the record is assembled and
\* returned, or None is; the future is done.
WorkerFinish(u) ==
    /\ mode = "bulk"
    /\ pc = "collect"
    /\ stage[u] = "running"
    /\ \E ok \in BOOLEAN :
          /\ pool_result' = [pool_result EXCEPT ![u] = fetch_one(PendingTopic(u), ok)]
          /\ life' = [life EXCEPT ![u] = Append(@, IF ok THEN "Parsed" ELSE "Failed")]
    /\ stage' = [stage EXCEPT ![u] = "done"]
    /\ finished' = Append(finished, u)
    /\ UNCHANGED <<workers, poolFrame, poolFixed>>
    /\ UNCHANGED <<pc, db, nextId, existing, pending, completed, batch, total_saved,
                   language_cache, raised, loads, results, flushes, failed>>

\* One iteration of the as_completed loop (lines 251-260) in the main
\* thread: the next completed future is consumed, its record joins the
\* batch, and a full batch is flushed.
PoolCollect ==
    /\ mode = "bulk"
    /\ pc = "collect"
    /\ Len(results) < Len(finished)
    /\ LET u      == NextCompleted(finished, Len(results))
           result == pool_result[u]
           batch1 == IF result.kind = "data" THEN Append(batch, result) ELSE batch
           life1  == IF result.kind = "data"
                     THEN [life EXCEPT ![u] = Append(@, "Batched")] ELSE life
       IN  /\ completed' = completed \cup {k \in DOMAIN pending : pending[k].url = u}
           /\ results' = Append(results, [url |-> u, ok |-> result.kind = "data"])
           /\ pc' = IF Len(results') = Len(pending) THEN "final" ELSE "collect"
           /\ IF ShouldFlush(batch1, batch_size)
              THEN \E failAt \in FailPoints(batch1) :
                     LET r == save_batch(db, batch1, language_cache, nextId, failAt) IN
                     /\ db' = r.db
                     /\ language_cache' = r.cache
                     /\ nextId' = r.nextId
                     /\ total_saved' = total_saved + r.saved
                     /\ batch' = <<>>
                     /\ flushes' = Append(flushes, FlushRecord(batch1, failAt, r, FALSE))
                     /\ failed' = (failed \/ result.kind # "data" \/ ~r.ok)
                     /\ life' = FlushLife(life1, batch1, failAt, r, db)
              ELSE /\ batch' = batch1
                   /\ failed' = (failed \/ result.kind # "data")
                   /\ life' = life1
                   /\ UNCHANGED <<db, language_cache, nextId, total_saved, flushes>>
    /\ UNCHANGED <<workers, stage, pool_result, finished, poolFrame, poolFixed>>
    /\ UNCHANGED <<existing, pending, raised, loads>>

\* Lines 262-268: the executor has shut down; the final partial batch.
PoolFinalFlush ==
    /\ mode = "bulk"
    /\ pc = "final"
    /\ pc' = "done"
    /\ IF batch # <<>>
       THEN \E failAt \in FailPoints(batch) :
              LET r == save_batch(db, batch, language_cache, nextId, failAt) IN
              /\ db' = r.db
              /\ language_cache' = r.cache
              /\ nextId' = r.nextId
              /\ total_saved' = total_saved + r.saved
              /\ flushes' = Append(flushes, FlushRecord(batch, failAt, r, TRUE))
              /\ failed' = (failed \/ ~r.ok)
              /\ life' = FlushLife(life, batch, failAt, r, db)
       ELSE UNCHANGED <<db, language_cache, nextId, total_saved, flushes, failed, life>>
    /\ UNCHANGED <<workers, stage, pool_result, finished, poolFrame, poolFixed>>
    /\ UNCHANGED <<existing, pending, completed, batch, raised, loads, results>>

\* What a complete harvest of the site returns.
HarvestOf(st) ==
    LET found == NewOnPage(Flatten([c \in CategoryIds |-> st[c]]), {}) IN
    [k \in DOMAIN found |-> Topic(found[k], 1)]

\* initial_scrape.py __main__ has parsed its arguments and harvested the
\* site; the store holds what earlier runs left.
InitPool ==
    /\ site \in Sites
    /\ linksPerPage = 2
    /\ \E seeded \in BOOLEAN, stored \in {<<>>} \cup {<<u>> : u \in Urls} :
          /\ db = [movies |-> stored,
                   languages |-> IF seeded THEN SeededLanguages ELSE {},
                   links |-> {}, tx |-> EmptyTx, pend |-> {}]
          /\ nextId = IF seeded THEN 2 ELSE 1
          /\ storeAtStart = Range(stored)
    /\ runNo = 1
    /\ mode = "bulk"
    /\ pc = "enrich"
    /\ max_pages = 2
    /\ batch_size \in 1 .. MaxBatch
    /\ cat = Len(FORUM_CATEGORIES)
    /\ page = 1
    /\ all_topics = HarvestOf(site)
    /\ all_topics # <<>>
    /\ seen_urls = TopicUrls(all_topics)
    /\ existing = {}
    /\ pending = <<>>
    /\ completed = {}
    /\ batch = <<>>
    /\ total_saved = 0
    /\ language_cache = {}
    /\ existing_urls = {}
    /\ new_topics = <<>>
    /\ idx = 0
    /\ total_added = 0
    /\ raised = FALSE
    /\ interrupted = FALSE
    /\ loads = 0
    /\ results = <<>>
    /\ flushes = <<>>
    /\ failed = FALSE
    /\ prev = NoPrev
    /\ ticks = 0
    /\ RetryIdle
    /\ EnrichIdle
    /\ TMDB_BEARER_TOKEN = FALSE
    /\ OMDB_API_KEY = FALSE
    /\ LinksIdle
    /\ RaceIdle
    /\ ParseIdle
    /\ ImagesIdle
    /\ workers \in WorkerArgs
    /\ stage = [u \in Urls |-> "none"]
    /\ pool_result = [u \in Urls |-> None]
    /\ finished = <<>>
    /\ life = [u \in Urls |-> <<>>]

NextPool ==
    \/ PoolStart
    \/ WorkerStart
    \/ \E u \in Urls : WorkerFinish(u)
    \/ PoolCollect
    \/ PoolFinalFlush

SpecPool == InitPool /\ [][NextPool]_vars

(***************************************************************************)
(* update_images.run for one movie of the table.                           *)
(***************************************************************************)
imageFrame == <<quietVars, linkVars, raceVars, parseVars, poolVars>>

\* Lines 163-189: the query picks the movie or not; a picked movie's
\* lookup is submitted to the executor.
ImageQuery ==
    /\ image_pc = "start"
    /\ image_pc' = IF Selected(overwrite, movie) THEN "queued" ELSE "skipped"
    /\ UNCHANGED <<overwrite, movie, movie_before, image_enriched, imageFrame>>

\* Lines 191-228: the movie's future completes; nothing found leaves the
\* row alone, else _set runs for the eight fields and the row is committed.
ImageUpdate ==
    /\ image_pc = "queued"
    /\ \E e \in ImageLookups :
          /\ image_enriched' = e
          /\ movie' = IF e = NotFound THEN movie
                       ELSE [f \in UpdatedFields |-> SetField(overwrite, f, movie[f], e[f])]
    /\ image_pc' = "done"
    /\ UNCHANGED <<overwrite, movie_before, imageFrame>>

InitImages ==
    /\ PipelineInit
    /\ PipelinesIdle
    /\ RetryIdle
    /\ EnrichIdle
    /\ TMDB_BEARER_TOKEN = FALSE
    /\ OMDB_API_KEY = FALSE
    /\ LinksIdle
    /\ RaceIdle
    /\ ParseIdle
    /\ PoolIdle
    /\ overwrite \in BOOLEAN
    /\ movie \in StoredMovies
    /\ movie_before = movie
    /\ image_enriched = NotFound
    /\ image_pc = "start"

NextImages ==
    \/ ImageQuery
    \/ ImageUpdate

SpecImages == InitImages /\ [][NextImages]_vars

(***************************************************************************)
(* Properties.                                                             *)
(***************************************************************************)
\* The batches handed to _save_batch so far, in call order.
FlushedBatches == [k \in DOMAIN flushes |-> flushes[k].batch]

\* The locators whose worker returned a record, in completion order.
OkUrls == LET ok == SelectSeq(results, LAMBDA r : r.ok) IN [k \in DOMAIN ok |-> ok[k].url]

FailedUrls == {results[k].url : k \in {j \in DOMAIN results : ~results[j].ok}}

\* enrich_and_save was entered by the running bulk run.
InEnrich == mode = "bulk" /\ loads = 1

\* enrich_and_save returned.
EnrichDone == InEnrich /\ pc = "done" /\ ~raised /\ ~interrupted

\* C1: after any sequence of bulk and incremental runs against the same
\* store, no two movie rows, committed or flushed in the open transaction,
\* carry the same source_url.
C1_UniqueSourceUrl == NoDuplicates(VisibleMovies(db))

\* C1 witness: a second run of the other mode has ended, the store holds
\* two records, and that run met a locator twice (the existence re-check
\* decided the second occurrence).
C1_Witness ==
    /\ runNo = 2
    /\ pc = "done"
    /\ prev.mode \notin {NoMode, mode}
    /\ Len(db.movies) >= 2
    /\ \E j, k \in DOMAIN results :
          j < k /\ results[j].url = results[k].url /\ results[j].ok /\ results[k].ok

\* C2: once an item's insert has failed in a _save_batch call, no item of
\* that batch is in the store for the rest of the run (items 0..k were
\* rolled back, the items after k were never inserted, so saved counts
\* only items before k), and each of the batch's locators would be pending
\* again in a bulk run started on the store as the run left it.
C2_FailedBatchRolledBack ==
    mode = "bulk" =>
      \A j \in DOMAIN flushes :
        flushes[j].at = "item" =>
          /\ Range(flushes[j].batch) \cap Range(VisibleMovies(db)) = {}
          /\ flushes[j].saved < flushes[j].tried
          /\ pc = "done" =>
                \A t \in Range(all_topics) :
                  t.url \in Range(flushes[j].batch)
                    => t \in Range(PendingOf(all_topics, StoredUrls(db)))

\* C2 witness: a run has ended in which the second item of a two-item
\* batch failed after the first one had been inserted.
C2_Witness ==
    /\ mode = "bulk"
    /\ pc = "done"
    /\ \E j \in DOMAIN flushes :
          /\ flushes[j].at = "item"
          /\ flushes[j].failAt = 2
          /\ flushes[j].saved = 1
          /\ Len(flushes[j].batch) = 2

\* A second bulk run directly after a first bulk run has ended.
SecondBulkDone ==
    /\ runNo >= 2
    /\ prev.mode = "bulk"
    /\ EnrichDone

\* C3 as claimed: a bulk run that follows a bulk run on the same source
\* and store has no stored locator pending and reports an added count 0.
C3_SecondBulkRunAddsNothing ==
    SecondBulkDone =>
      /\ TopicUrls(pending) \cap storeAtStart = {}
      /\ total_saved = 0

\* C3 amended: a bulk run that follows a bulk run inserts no locator twice
\* and has no stored locator pending; when every locator it harvests was
\* stored before it started, nothing is pending, its added count is 0 and
\* the movies table is as it found it.
C3_SecondBulkRunDedupes ==
    (runNo >= 2 /\ prev.mode = "bulk" /\ InEnrich) =>
      /\ NoDuplicates(db.movies)
      /\ TopicUrls(pending) \cap storeAtStart = {}
      /\ TopicUrls(all_topics) \subseteq storeAtStart =>
            /\ pending = <<>>
            /\ total_saved = 0
            /\ StoredUrls(db) = storeAtStart

\* C3 witness: the second bulk run has ended after harvesting only
\* locators the first run stored.
C3_Witness ==
    /\ SecondBulkDone
    /\ all_topics # <<>>
    /\ TopicUrls(all_topics) \subseteq storeAtStart
    /\ total_saved = 0

\* A second incremental run directly after a first incremental run.
SecondCron == runNo >= 2 /\ prev.mode = "incr" /\ mode = "incr"

C5_FailureAffectsOnlyItsBatch ==
    mode = "bulk" =>
      \A j \in DOMAIN flushes :
        flushes[j].failAt = 0 => Range(flushes[j].batch) \subseteq StoredUrls(db)

\* C6: a worker failure removes only that item: when enrich_and_save
\* returns, every pending item was fetched exactly once, no failed item is
\* in a batch, and the batches flushed are exactly those of the same run
\* without the failed items: the successful results, in completion order,
\* cut into pieces of batch_size.
C6_WorkerFailureRemovesOnlyItsItem ==
    /\ (InEnrich /\ pc \in {"collect", "final"}) =>
          Flatten(FlushedBatches) \o UrlsOf(batch) = OkUrls
    /\ EnrichDone =>
          /\ Len(results) = Len(pending)
          /\ \A k \in DOMAIN pending : Count([j \in DOMAIN results |-> results[j].url], pending[k].url) = 1
          /\ FailedUrls \cap Range(Flatten(FlushedBatches)) = {}
          /\ FlushedBatches = Chunks(OkUrls, batch_size)

\* C6 witness: a run has ended in which one worker failed and two others
\* returned records that were flushed.
C6_Witness ==
    /\ EnrichDone
    /\ FailedUrls # {}
    /\ Len(OkUrls) = 2
    /\ Len(Flatten(FlushedBatches)) = 2

\* C7: in a bulk run the persisted locators are loaded once, before any
\* detail page is fetched, and no detail page is fetched for a locator that
\* was stored when the run started.
C7_StoredLocatorsNeverFetched ==
    mode = "bulk" =>
      /\ loads <= 1
      /\ results # <<>> => loads = 1
      /\ loads = 1 => existing = storeAtStart
      /\ \A k \in DOMAIN results : results[k].url \notin storeAtStart

\* C7 witness: a bulk run that harvested a stored locator has fetched a
\* detail page.
C7_Witness ==
    /\ mode = "bulk"
    /\ results # <<>>
    /\ TopicUrls(all_topics) \cap storeAtStart # {}

\* C8: with batch_size >= 1 the batch holds fewer than batch_size results
\* after every loop iteration (so never more than batch_size); every flush
\* in the loop takes exactly batch_size results, the only other flush is
\* the final one of a non-empty rest; and when enrich_and_save returns
\* every worker record is in exactly one flushed batch.
C8_BatchBounded ==
    (InEnrich /\ batch_size >= 1) =>
      /\ pc \in {"collect", "final"} => Len(batch) < batch_size
      /\ \A j \in DOMAIN flushes :
            /\ Len(flushes[j].batch) \in 1 .. batch_size
            /\ ~flushes[j].final => Len(flushes[j].batch) = batch_size
            /\ flushes[j].final => j = Len(flushes) /\ pc = "done"
      /\ EnrichDone =>
            /\ \A k \in DOMAIN OkUrls : Count(Flatten(FlushedBatches), OkUrls[k]) = 1
            /\ batch # <<>> => flushes # <<>> /\ flushes[Len(flushes)].batch = UrlsOf(batch)

\* C8 witness: a run has ended with a full batch flushed in the loop and a
\* shorter final batch.
C8_Witness ==
    /\ EnrichDone
    /\ batch_size = 2
    /\ Len(flushes) = 2
    /\ Len(flushes[2].batch) = 1
    /\ flushes[2].final

\* The steps a run can take at most: the index pages, the start of
\* enrich_and_save, one loop iteration per topic and the final flush; or,
\* per category of the cron run, the scan, the page's topics and the commit.
MaxTicks ==
    IF mode = "bulk"
    THEN Len(FORUM_CATEGORIES) * max_pages + Cardinality(Urls) + 2
    ELSE Len(FORUM_CATEGORIES) * (linksPerPage + 2)

\* The step of the running pipeline at pc can be taken: its loop has an
\* element to work on.
CanStep ==
    /\ pc \in {"harvest", "enrich", "collect", "final"} => mode = "bulk"
    /\ pc \in {"scan", "item", "commit"} => mode = "incr"
    /\ pc \in {"harvest", "scan"} => cat \in CategoryIds
    /\ pc = "collect" => DOMAIN pending \ completed # {}
    /\ pc = "item" => idx \in DOMAIN new_topics

\* C9: whatever index-page fetches, detail fetches, inserts and commits
\* fail, no exception reaches the caller of a run, a run that has not ended
\* can take its next step, and it ends within MaxTicks steps.
C9_RunsEndWithoutRaising ==
    /\ ~raised
    /\ ticks <= MaxTicks
    /\ CanStep

\* C9 witness: a bulk run has ended after a failed index-page fetch, a
\* failed worker and a failed flush, following an incremental run that had
\* failures too.
C9_Witness ==
    /\ EnrichDone
    /\ prev.mode = "incr"
    /\ prev.failed
    /\ FailedUrls # {}
    /\ \E j \in DOMAIN flushes : ~flushes[j].ok
    /\ Cardinality(TopicUrls(all_topics)) < Cardinality(UNION {Range(site[c]) : c \in CategoryIds})

\* C10 as claimed: when an interrupt ends a bulk run, every result held in
\* the in-memory batch is in the store.
C10_InterruptCommitsBatch ==
    interrupted => \A k \in DOMAIN batch : batch[k].source_url \in StoredUrls(db)

\* The requests of the call so far that raised a RequestException.
FailedAttempts == Cardinality({k \in DOMAIN outcomes : outcomes[k] \in RequestExceptions})

\* C11: a call with retries = n >= 1 sends at most n requests, none after a
\* successful one; the wait after the k-th failed attempt, k < n, is 2^k
\* seconds and there is no other wait; the call returns only on a
\* successful request; and when n requests have failed the call has raised
\* the exception of the n-th.
C11_RetryBackoff ==
    retries >= 1 =>
      /\ Len(outcomes) <= retries
      /\ \A k \in DOMAIN outcomes : k < Len(outcomes) => outcomes[k] \in RequestExceptions
      /\ sleeps = [k \in 1 .. Min(FailedAttempts, retries - 1) |-> 2 ^ k]
      /\ rpc = "try" => attempt = Len(outcomes) + 1 /\ attempt <= retries
      /\ rpc = "returned" <=> (outcomes # <<>> /\ outcomes[Len(outcomes)] = "ok")
      /\ FailedAttempts = retries =>
            rpc = "raised" /\ error = outcomes[retries] /\ error # NoError

\* C11 witness: a call with retries = 3 has raised the HTTP error of its
\* third attempt after two timeouts and waits of 2 and 4 seconds.
C11_Witness ==
    /\ retries = 3
    /\ rpc = "raised"
    /\ outcomes = <<"Timeout", "Timeout", "HTTPError">>
    /\ sleeps = <<2, 4>>
    /\ error = "HTTPError"

\* _enrich has returned.
Enriched == epc \in {"enriched", "persisted"}

\* A dict supplies field k.
Supplies(d, k) == d[k] \notin Falsy \cup {Absent}

\* C12 as claimed: when A returned a usable image, the merged value of
\* every field is A's value where A supplied one, and B's value where A
\* left the field empty or absent and B supplied one.
C12_MergePrefersSuppliedFields ==
    (Enriched /\ UsableImage(tmdb)) =>
      \A k \in Keys :
        /\ Supplies(tmdb, k) => enriched[k] = tmdb[k]
        /\ (~Supplies(tmdb, k) /\ Supplies(omdb, k)) => enriched[k] = omdb[k]

\* C13: _enrich calls A first and B exactly once after it, in either
\* branch, and no query goes to B before the last query to A; when A
\* returned no usable image the dict returned is B's, field by field.
C13_FallbackReturnsB ==
    /\ epc = "tmdb" => calls = <<>>
    /\ epc = "omdb" => calls = <<"tmdb">>
    /\ Enriched => calls = <<"tmdb", "omdb">>
    /\ \A i, j \in DOMAIN queries :
          (queries[i].provider = "omdb" /\ queries[j].provider = "tmdb") => j < i
    /\ (Enriched /\ ~UsableImage(tmdb)) => enriched = omdb

\* C13 witness: A returned a synopsis and a rating but no image, B
\* returned data, and _enrich returned B's dict.
C13_Witness ==
    /\ epc = "enriched"
    /\ ~UsableImage(tmdb)
    /\ tmdb["synopsis"] = "A"
    /\ tmdb["tmdb_rating"] = "A"
    /\ omdb["synopsis"] = "B"
    /\ enriched = omdb

\* C14: no exception leaves _tmdb_enrich, _omdb_enrich or _enrich; a
\* provider without credential is sent no query and yields the empty dict;
\* a lookup that failed yields the empty dict; and the record of an item is
\* assembled and stored whatever the enrichment, with the defaults of
\* _fetch_movie_detail when the enrichment is empty.
C14_EnrichmentNeverRaises ==
    /\ epc # "raised"
    /\ ~TMDB_BEARER_TOKEN =>
          /\ \A i \in DOMAIN queries : queries[i].provider # "tmdb"
          /\ tmdb = EmptyDict
    /\ ~OMDB_API_KEY =>
          /\ \A i \in DOMAIN queries : queries[i].provider # "omdb"
          /\ omdb = EmptyDict
    /\ "tmdb" \in failures => tmdb = EmptyDict
    /\ "omdb" \in failures => omdb = EmptyDict
    /\ \A y \in Years :
          (tmdb_cache[y].cached /\ tmdb_cache[y].failure) => tmdb_cache[y].result = EmptyDict
    /\ epc = "persisted" =>
          /\ record.kind = "data"
          /\ record.source_url \in StoredUrls(db)
          /\ enriched = EmptyDict =>
                /\ record.synopsis = ""
                /\ record.tmdb_rating = "0.0"
                /\ record.genres = "[]"
                /\ record.poster_url \in {PyNone, "P"}

\* C14 witness: both providers were queried and failed, and the record
\* with the empty enrichment is in the store.
C14_Witness ==
    /\ epc = "persisted"
    /\ failures = {"tmdb", "omdb"}
    /\ Len(queries) >= 2
    /\ enriched = EmptyDict
    /\ record.source_url \in StoredUrls(db)

\* harvest_all_urls is running before / after a step.
Harvesting == mode = "bulk" /\ pc = "harvest"

HarvestingNext == mode' = "bulk" /\ pc' = "harvest"

\* C15: whenever harvest_all_urls is about to fetch a page, the page
\* number is within 1 .. max_pages; a category starts at page 1; the page
\* number goes up by one, and only after a page that yielded a new link
\* and was not page max_pages; and the index pages fetched so far are at
\* most max_pages for every category left plus the pages of this one, so
\* the harvest ends within Len(FORUM_CATEGORIES) * max_pages fetches.
C15_PaginationBounded ==
    [][HarvestingNext =>
         /\ page' \in 1 .. max_pages'
         /\ ticks' <= (cat' - 1) * max_pages' + (page' - 1)
         /\ IF Harvesting
            THEN \/ /\ cat' = cat
                    /\ page' = page + 1
                    /\ page < max_pages
                    /\ Len(all_topics') > Len(all_topics)
                 \/ /\ cat' = cat + 1
                    /\ page' = 1
            ELSE cat' = 1 /\ page' = 1]_vars

\* C15 witness: with --max-pages 2 the first category was left after its
\* second page, which still showed a new link, and the second category is
\* at page 1.
C15_Witness ==
    /\ Harvesting
    /\ max_pages = 2
    /\ linksPerPage = 1
    /\ cat = 2
    /\ page = 1
    /\ ticks = 2
    /\ Len(all_topics) = 2

\* C16: the list harvest_all_urls builds and returns holds no locator
\* twice.
C16_HarvestHasNoDuplicates ==
    mode = "bulk" => NoDuplicates([k \in DOMAIN all_topics |-> all_topics[k].url])

\* C16 witness: the harvest has returned from a site that shows one
\* locator twice on a page of the first category and again in the second.
C16_Witness ==
    /\ mode = "bulk"
    /\ pc = "enrich"
    /\ ~failed
    /\ linksPerPage = 2
    /\ site[1] = <<1, 1>>
    /\ site[2] = <<1, 2>>
    /\ Len(all_topics) = 2

\* C17 as claimed: within one run, bulk or incremental, no locator's
\* detail page is fetched twice.
C17_EachLocatorFetchedOnce ==
    NoDuplicates([k \in DOMAIN results |-> results[k].url])

\* The incremental run is / will be in its category loop.
CronRunning == mode = "incr" /\ pc \in {"scan", "item", "commit"}

\* C18: a step of the harvest, a failed page fetch included, keeps the
\* topics harvested so far, goes on with the same or the next category,
\* and leaves the harvest only from the last category; a step of the
\* incremental category loop, a failed page fetch included, keeps every
\* committed record, goes on with the same or the next category, and ends
\* the run only from the last category.
C18_PageFailureEndsOnlyItsCategory ==
    [][/\ Harvesting =>
            /\ SubSeq(all_topics', 1, Len(all_topics)) = all_topics
            /\ seen_urls \subseteq seen_urls'
            /\ cat' \in {cat, cat + 1}
            /\ pc' # "harvest" => cat = Len(FORUM_CATEGORIES)
       /\ CronRunning =>
            /\ SubSeq(db'.movies, 1, Len(db.movies)) = db.movies
            /\ cat' \in {cat, cat + 1}
            /\ pc' = "done" => cat = Len(FORUM_CATEGORIES)]_vars

\* C18 witness (bulk): the second page of the first category failed, the
\* topic of its first page is kept and the second category is scanned.
C18_Witness ==
    /\ Harvesting
    /\ failed
    /\ cat = 2
    /\ ticks = 2
    /\ Len(all_topics) = 1
    /\ Len(site[1]) = 2

\* C19: a successful scan of a category's first page yields as new topics
\* exactly the qualifying links before the first one whose locator is in
\* the known set.
C19_ScanStopsAtFirstKnown ==
    [][(mode = "incr" /\ pc = "scan" /\ pc' \in {"item", "commit"}) =>
         LET links == PageLinks(cat, 1)
             new   == [k \in DOMAIN new_topics' |-> new_topics'[k].url]
         IN  \E n \in 0 .. Len(links) :
               /\ new = SubSeq(links, 1, n)
               /\ \A i \in 1 .. n : links[i] \notin existing_urls
               /\ n < Len(links) => links[n + 1] \in existing_urls]_vars

\* C19 witness: a page showed a new link, then a known one, then (on a
\* page of two links) nothing else; the scan kept the first.
C19_Witness ==
    /\ mode = "incr"
    /\ pc = "item"
    /\ idx = 1
    /\ Len(PageLinks(cat, 1)) = 2
    /\ PageLinks(cat, 1)[1] \notin existing_urls
    /\ PageLinks(cat, 1)[2] \in existing_urls
    /\ Len(new_topics) = 1

\* C20 as claimed: when persisting item idx of a category fails, the items
\* of that category inserted before it are still in the store.
C20_PersistedItemSurvivesLaterFailure ==
    [][(mode = "incr" /\ pc = "item" /\ idx' = idx) =>
         \A k \in 1 .. (idx - 1) :
           HasSourceUrl(db, new_topics[k].url) => HasSourceUrl(db', new_topics[k].url)]_vars

\* The minimum text length and the inclusion pattern of each mode.
LongEnough(m, l) == IF m = "bulk" THEN l.length > 5 ELSE l.length >= 20

Included(m, l) == IF m = "bulk" THEN l.download_kw ELSE l.size_kw

\* C21 as claimed: in both modes a link that became a topic has the topic
\* path, a text longer than the minimum, a match of the inclusion pattern
\* and no match of the exclusion pattern; and no record is persisted for
\* a link whose text matches the exclusion pattern.
C21_OnlyQualifyingLinksBecomeTopics ==
    /\ \A i \in link_topics :
          /\ page_links[i].topic_path
          /\ LongEnough(scan_mode, page_links[i])
          /\ Included(scan_mode, page_links[i])
          /\ ~page_links[i].skip_kw
    /\ \A i \in link_persisted : ~page_links[i].skip_kw

\* The INSERT of run r raised in this step.
RaceHit(r) == \E u \in Urls : <<r, u>> \in race_hits' \ race_hits

\* C22: overlapping runs never leave two committed records with the same
\* locator, and a run whose INSERT raised has its transaction rolled
\* back: none of that transaction's rows is or becomes visible.
C22_OverlappingRunsStoreLocatorOnce ==
    /\ [](NoDuplicates(race_store))
    /\ [][\A r \in Runs : RaceHit(r) =>
              /\ race_tx'[r] = <<>>
              /\ race_store' = race_store]_vars

\* Both runs passed the existence check for one locator; one committed
\* it and the INSERT of the other raised.
C22_Witness ==
    \E r \in Runs, u \in Urls :
        /\ <<r, u>> \in race_hits
        /\ UniqueKeyHeld(race_store, u)
        /\ race_snap[r] = <<>>
        /\ race_tx[r] = <<>>

\* C23: build_downloads returns one variant per link, in link order;
\* variant i has the i-th quality and the i-th file size, "Rip" and
\* "Unknown" past the end of either list; codec, audio format and audio
\* languages are the same in all variants.
C23_OneVariantPerLink ==
    parse_pc = "built" =>
        /\ Len(downloads) = Len(magnets)
        /\ \A i \in DOMAIN magnets :
              /\ downloads[i].magnet_url = magnets[i]
              /\ i <= Len(parsed.qualities) => downloads[i].quality = parsed.qualities[i]
              /\ i > Len(parsed.qualities) => downloads[i].quality = "Rip"
              /\ i <= Len(parsed.file_sizes) => downloads[i].file_size = parsed.file_sizes[i]
              /\ i > Len(parsed.file_sizes) => downloads[i].file_size = Unknown
        /\ \A i, j \in DOMAIN downloads :
              /\ downloads[i].codec = downloads[j].codec
              /\ downloads[i].audio_format = downloads[j].audio_format
              /\ downloads[i].audio_languages = downloads[j].audio_languages

\* Three links, two quality tiers and one file size: the third variant is
\* a "Rip" and the second and third have no known size.
C23_Witness ==
    /\ parse_pc = "built"
    /\ Len(magnets) = 3
    /\ Len(parsed.qualities) = 2
    /\ Len(parsed.file_sizes) = 1
    /\ downloads[3].quality = "Rip"
    /\ downloads[2].file_size = Unknown
    /\ downloads[2].quality = parsed.qualities[2]

\* The keys of the dict parse_title returns.
ParsedKeys == {"title", "year", "source_format", "qualities", "codec",
               "audio_format", "audio_languages", "file_sizes"}

\* The value of the four digits that follow position i.
YearValue(s, i) ==
    1000 * DigitValue(s[i + 1]) + 100 * DigitValue(s[i + 2])
        + 10 * DigitValue(s[i + 3]) + DigitValue(s[i + 4])

\* C24: parse_title returns for every raw title; its year is the integer
\* of the first parenthesised 4-digit group of the raw text, and None
\* when the text has no such group.
C24_YearIsFirstParenthesisedGroup ==
    parse_pc \in {"parsed", "built"} =>
          /\ (\A i \in DOMAIN raw_title : ~YearAt(raw_title, i)) => parsed.year = Nothing
          /\ \A i \in DOMAIN raw_title :
                (YearAt(raw_title, i) /\ \A j \in 1..(i - 1) : ~YearAt(raw_title, j))
                    => parsed.year = Some(YearValue(raw_title, i))
          /\ DOMAIN parsed = ParsedKeys

\* A title with two different parenthesised years, parsed.
C24_Witness ==
    /\ parse_pc = "parsed"
    /\ \E i, j \in DOMAIN raw_title :
          /\ i < j
          /\ YearAt(raw_title, i)
          /\ YearAt(raw_title, j)
          /\ YearValue(raw_title, i) # YearValue(raw_title, j)
          /\ parsed.year = Some(YearValue(raw_title, i))

\* The place of a quality label in QUALITY_LABELS.
Rank(q) == CHOOSE i \in DOMAIN QUALITY_LABELS : QUALITY_LABELS[i].name = q

\* The position of the first occurrence of a label's text in the title.
FirstSeen(raw, text) ==
    First({p \in 1..(Len(raw) + 1) : StartsAt(Lowered(raw), p, Lowered(text))})

LifeRank(x) ==
    CASE x = "Pending" -> 1
      [] x = "Fetching" -> 2
      [] x = "Parsed" -> 3
      [] x = "Enriched" -> 4
      [] x \in {"Deduped", "Dropped"} -> 5
      [] x = "Batched" -> 6
      [] x \in {"Committed", "Failed"} -> 7

TerminalStates == {"Dropped", "Committed", "Failed"}

\* C25 as claimed: every item of a bulk run goes through Pending,
\* Fetching, Parsed, Enriched, Deduped(kept|dropped), Batched,
\* Committed|Failed in that order and never backwards; a record is
\* committed only after its item was fetched, parsed, enriched,
\* deduplicated and batched; when the run has ended every item is in
\* exactly one terminal state.
C25_ItemLifecycleInOrder ==
    \A u \in Urls :
        /\ \A i, j \in DOMAIN life[u] :
              i < j => LifeRank(life[u][i]) < LifeRank(life[u][j])
        /\ "Committed" \in Range(life[u]) =>
              {"Fetching", "Parsed", "Enriched", "Deduped", "Batched"} \subseteq Range(life[u])
        /\ (pc = "done" /\ u \in TopicUrls(all_topics)) =>
              /\ Cardinality({i \in DOMAIN life[u] : life[u][i] \in TerminalStates}) = 1
              /\ life[u][Len(life[u])] \in TerminalStates

\* C28: at every moment of phase 2 the number of detail-page fetches in
\* flight is at most the worker count, whatever the number of pending
\* items.
C28_FetchesInFlightBounded ==
    mode = "bulk" => Cardinality(Running) <= workers

\* Three topics are pending, the pool of two workers is full and the
\* third topic waits in the queue.
C28_Witness ==
    /\ Len(pending) = 3
    /\ workers = 2
    /\ Cardinality(Running) = 2
    /\ \E u \in Urls : stage[u] = "queued"

\* The locators whose worker returned a record, in the order of pending.
OkInPendingOrder ==
    LET ok == SelectSeq(pending, LAMBDA t : pool_result[t.url].kind = "data") IN
    [k \in DOMAIN ok |-> ok[k].url]

\* The locators whose worker returned a record, in completion order.
OkAsCompleted == SelectSeq(finished, LAMBDA u : pool_result[u].kind = "data")

\* The groups of a list of batches, their order and inner order ignored.
Groups(batches) == {Range(batches[k]) : k \in DOMAIN batches}

\* The record of every item is the one computed from its own topic.
RecordsArePerItem ==
    /\ \A u \in Range(finished) : pool_result[u] \in {None, Data(u, PendingTopic(u).lang)}
    /\ \A k \in DOMAIN batch : batch[k] = Data(batch[k].source_url, PendingTopic(batch[k].source_url).lang)

\* C26 as claimed: which items share a commit batch follows from the
\* pending list alone (and from which workers failed), whatever the order
\* in which the workers complete.
C26_BatchesIndependentOfCompletionOrder ==
    /\ RecordsArePerItem
    /\ (mode = "bulk" /\ pc = "done") =>
          Groups(FlushedBatches) = Groups(Chunks(OkInPendingOrder, batch_size))

\* C26 amended: each item's record (and so its quality/file-size pairing)
\* is computed from that item alone, but batch membership follows
\* completion order: the batches are the successful results in the order
\* their workers completed, cut into pieces of batch_size.
C26_BatchesFollowCompletionOrder ==
    /\ RecordsArePerItem
    /\ mode = "bulk" =>
          /\ pc \in {"collect", "final"} =>
                Flatten(FlushedBatches) \o UrlsOf(batch)
                    = SelectSeq(SubSeq(finished, 1, Len(results)),
                                LAMBDA u : pool_result[u].kind = "data")
          /\ pc = "done" => FlushedBatches = Chunks(OkAsCompleted, batch_size)

\* Three workers results were batched by two; the third pending topic
\* completed before the second and shares a batch with the first.
C26_Witness ==
    /\ pc = "done"
    /\ Len(pending) = 3
    /\ batch_size = 2
    /\ finished = <<pending[1].url, pending[3].url, pending[2].url>>
    /\ FlushedBatches = <<<<pending[1].url, pending[3].url>>, <<pending[2].url>>>>

\* A worker thread takes a step.
WorkerStep == \E u \in Urls : stage[u] \in {"queued", "running"} /\ stage'[u] # stage[u]

\* The coordinator flushes a batch in this step.
FlushStep == Len(flushes') = Len(flushes) + 1

\* The shared state of phase 2: session, caches, batch and counters.
SharedState == <<db, language_cache, nextId, batch, total_saved, flushes, results>>

\* C27 as claimed: worker threads never write the session, the caches or
\* the batch; only the coordinator does, and it mutates the language
\* cache only between batch flushes.
C27_CachesMutatedBetweenFlushes ==
    [][/\ WorkerStep => UNCHANGED SharedState
       /\ language_cache' # language_cache => ~FlushStep]_vars

\* C27 amended: worker threads never write the session, the caches or
\* the batch; only the coordinator does, and it mutates the language
\* cache and the store only inside a batch flush (_save_batch), which may
\* run while workers are in flight.
C27_CachesMutatedInsideFlushes ==
    [][/\ WorkerStep => UNCHANGED SharedState
       /\ language_cache' # language_cache => FlushStep
       /\ db' # db => FlushStep]_vars

\* A flush filled the language cache while a worker was fetching.
C27_Witness ==
    /\ language_cache # {}
    /\ flushes # <<>>
    /\ Running # {}
    /\ finished # <<>>

\* The queries the current _enrich call has sent to a provider, in order.
SentTo(provider) == SelectSeq(queries, LAMBDA q : q.provider = provider)

\* C29 as claimed: a provider lookup sends at most two queries; a second
\* query is the year-dropped one and follows a year-qualified one, so it
\* never repeats the query already sent.
C29_YearDroppedOnlyAfterYearQualified ==
    \A provider \in {"tmdb", "omdb"} :
        /\ Len(SentTo(provider)) <= 2
        /\ Len(SentTo(provider)) = 2 =>
              /\ SentTo(provider)[1].year # NoYear
              /\ SentTo(provider)[2].year = NoYear
              /\ SentTo(provider)[1] # SentTo(provider)[2]

\* The texts occur in raw one after the other, from position p on.
RECURSIVE OccurInOrder(_, _, _)
OccurInOrder(raw, p, texts) ==
    IF texts = <<>> THEN TRUE
    ELSE LET at == {i \in p .. Len(raw) : StartsAt(raw, i, Head(texts))} IN
         at # {} /\ OccurInOrder(raw, First(at) + Len(Head(texts)), Tail(texts))

\* The text of a quality label.
LabelText(q) == QUALITY_LABELS[Rank(q)].text

\* C31 as claimed: the qualities and the file sizes parse_title returns
\* are in the order in which they first appear in the raw title.
C31_ListsInOrderOfAppearance ==
    parse_pc \in {"parsed", "built"} =>
        /\ \A i, j \in DOMAIN parsed.qualities :
              i < j => FirstSeen(raw_title, LabelText(parsed.qualities[i]))
                         < FirstSeen(raw_title, LabelText(parsed.qualities[j]))
        /\ OccurInOrder(raw_title, 1, parsed.file_sizes)

\* C32: without --all a field that holds a non-empty value is left
\* unchanged, except an image field whose value is not a tmdb.org URL; in
\* every mode no field is overwritten with an empty value, and a movie
\* whose lookup found nothing, or that the query did not pick, is left
\* unchanged.
C32_UpdateKeepsFilledFields ==
    /\ image_pc \in {"start", "queued", "skipped"} => movie = movie_before
    /\ image_pc = "done" =>
          /\ ~overwrite =>
                \A f \in UpdatedFields :
                    (movie_before[f] \notin Falsy
                       /\ ~(f \in ImageFields /\ movie_before[f] \notin TmdbUrls))
                    => movie[f] = movie_before[f]
          /\ \A f \in UpdatedFields :
                movie[f] # movie_before[f] => movie[f] \notin Falsy \cup {Absent}
          /\ image_enriched = NotFound => movie = movie_before

\* Without --all: the forum's poster was replaced, the synopsis the row
\* held was kept although the lookup supplied one, and the lookup had no
\* backdrop to offer for the missing one.
C32_Witness ==
    /\ image_pc = "done"
    /\ ~overwrite
    /\ movie_before["poster_url"] = "forum.jpg"
    /\ movie["poster_url"] = "https://image.tmdb.org/new"
    /\ movie_before["synopsis"] = "old"
    /\ image_enriched["synopsis"] = "new"
    /\ movie["synopsis"] = "old"
    /\ image_enriched["backdrop_url"] = PyNone
    /\ movie["backdrop_url"] = PyNone

\* The records the run has committed so far.
CommittedByRun == StoredUrls(db) \ storeAtStart

\* C33 as claimed: the added count a run reports equals the number of
\* Movie records the run committed: total_saved of a bulk run and
\* total_added of an incremental run count no record whose transaction
\* was rolled back or whose commit failed.
C33_AddedCountIsCommittedCount ==
    pc = "done" =>
      /\ mode = "bulk" => total_saved = Cardinality(CommittedByRun)
      /\ mode = "incr" => total_added = Cardinality(CommittedByRun)

\* The reference rows a session of the run can read.
CacheRefersToRows == \A e \in language_cache : e \in VisibleLanguages(db)

\* C34 as claimed: at every point of a run every entry of the language
\* cache refers to a row of the store or of the open transaction, also
\* after a batch or category rollback, so no record is linked to a
\* missing reference row.
C34_CacheEntriesReferToRows ==
    /\ CacheRefersToRows
    /\ \A l \in db.pend \cup db.tx.links \cup db.links :
          \E r \in VisibleLanguages(db) : r.id = l[2]

\* C36 as claimed: at every point of an incremental run existing_urls
\* holds only locators that are in the store or inserted in the open
\* transaction, also after a category's rollback.
C36_KnownLocatorsAreStored ==
    mode = "incr" => \A u \in existing_urls : HasSourceUrl(db, u)

\* The locators listed on the first page of some category.
OnFirstPage == UNION {Range(PageLinks(c, 1)) : c \in DOMAIN site}

\* C35 as claimed: a topic that an incremental run skipped because its
\* detail fetch failed, and that is still listed on a category's first
\* page, is in the store at the end of a later incremental run in which
\* no fetch and no database operation failed.
C35_SkippedTopicPersistedLater ==
    (SecondCron /\ pc = "done" /\ ~failed) =>
      \A u \in prev.skipped \cap OnFirstPage : u \in StoredUrls(db)

\* No detail fetch, insert or commit of the bulk run has failed.
NoFetchOrStoreFailure ==
    /\ \A k \in DOMAIN results : results[k].ok
    /\ \A k \in DOMAIN flushes : flushes[k].ok

C38_FailedLookupsNotMemoized ==
    \A y \in Years : tmdb_cache[y].cached => ~tmdb_cache[y].failure

\* C39 as claimed: for every value of retries, zero and negative ones
\* included, a call that has returned has returned the response of a
\* successful request; every other call that has ended has raised.
C39_ReturnsResponseOrRaises ==
    /\ rpc = "returned" => (outcomes # <<>> /\ outcomes[Len(outcomes)] = "ok")
    /\ rpc = "raised" => error # NoError

====
